---- MODULE Spec2Model ----
(***************************************************************************)
(* A model of the N2NHU world generator: the room graph generator          *)
(* (room_graph.py), the compiler pipeline (generator.py), the physics      *)
(* template library (physics_templates.py), the sprite factory             *)
(* (sprite_factory.py), the validator and round-trip verifier              *)
(* (validation_engine.py) and the auto-repair pass (create_world.py).      *)
(*                                                                         *)
(* Text is modelled as a sequence of tokens (a word, a separator or a      *)
(* digit), so that slug conversion, stripping, suffixing and percent       *)
(* escaping are computed, and two different names can yield one id.        *)
(***************************************************************************)
EXTENDS Integers, Sequences, FiniteSets, TLC

VARIABLES
    pc,                 \* position of the run that is being modelled
    rooms,              \* world.rooms: a sequence of Room records in dict order
    room_count,         \* generate: the room count (requested, then clamped)
    adjacency,          \* generate: adjacency[i] = sequence of [n, d, r] (neighbour, direction, reverse)
    next_i,             \* generate: the spanning-tree loop variable i
    attempts,           \* generate: bonus loop, attempts made
    added,              \* generate: bonus loop, edges added
    rerouted,           \* generate: TRUE once the detach-and-reattach branch has been taken
    names,              \* generate: the room names (a sequence of texts)
    ids,                \* generate: the room ids (a sequence of texts)
    objects,            \* world.objects: id -> GameObject
    transformations,    \* world.transformations: id -> Transformation
    sprites,            \* world.sprites: id -> Sprite
    physics_applied,    \* world.physics_applied: the list of applied tags
    respawn_location,   \* world.combat.respawn_location
    sd_host,            \* world.sd_config.host
    physics_to_apply,   \* _run_pipeline: the tags stage 5 has still to inject
    validation_errors,  \* _run_pipeline: validation.errors of stage 9
    validation_warnings,\* _run_pipeline: validation.warnings of stage 9
    theme_name,         \* classify: the world name it is called with
    best_theme,         \* classify: the tag it returns
    providers,          \* ProviderChain.providers with what each does when it is asked
    chain_call,         \* ProviderChain.generate: its arguments (world_name, room_name)
    chain_text,         \* ProviderChain: the text the latest call returned
    last_provider,      \* ProviderChain._last_provider_used
    prompts,            \* the interview: the prompts asked so far
    facts,              \* the interview: the facts extracted
    confidence,         \* the interview: ctx.confidence
    method,             \* the interview: ctx.method
    result,             \* the GeneratorResult returned by generate
    files,              \* the six artifacts in the output directory
    log,                \* the calls made so far: validate, write, verify, enrich, repair
    repaired,           \* main: broken exits removed by the repair
    obj_repaired,       \* main: objects relocated by the repair
    spr_repaired,       \* main: spawn lists fixed by the repair
    final_errors        \* main: the errors of the latest verification of STEP 5

genVars == <<room_count, adjacency, next_i, attempts, added, rerouted, names, ids>>
worldVars == <<objects, transformations, sprites, physics_applied, respawn_location, sd_host>>
themeVars == <<theme_name, best_theme>>
llmVars == <<providers, chain_call, chain_text, last_provider, prompts, facts, confidence, method>>
runVars == <<physics_to_apply, validation_errors, validation_warnings, result, themeVars, llmVars>>
fileVars == <<files, log, repaired, obj_repaired, spr_repaired, final_errors>>
vars == <<pc, rooms, genVars, worldVars, runVars, fileVars>>

----------------------------------------------------------------------------
(* Bounds of the model *)

\* largest requested room count explored
MaxRoomCount == 4

\* largest requested room count of the runs followed to their end
MaxTerminationRooms == 3

----------------------------------------------------------------------------
(* Sequences and dicts *)

Range(s) == {s[k] : k \in 1..Len(s)}

RECURSIVE Concat(_)
\* the concatenation of a sequence of sequences
Concat(ss) == IF ss = <<>> THEN <<>> ELSE Head(ss) \o Concat(Tail(ss))

Max(a, b) == IF a >= b THEN a ELSE b
Min(a, b) == IF a <= b THEN a ELSE b

\* all sequences over S of length n with pairwise distinct positions drawn from 1..Len(src)
InjectiveSeqs(src, n) ==
    {[k \in 1..n |-> src[f[k]]] :
        f \in {g \in [1..n -> 1..Len(src)] : \A a, b \in 1..n : a # b => g[a] # g[b]}}

----------------------------------------------------------------------------
(* room_graph.py: directions *)

\* a pair table that holds a pair the engine does not read
DIRECTION_PAIRS_with_enter_exit ==
    << <<"north", "south">>, <<"east", "west">>, <<"enter", "exit">> >>

DIRECTION_PAIRS == << <<"north", "south">>, <<"east", "west">>, <<"up", "down">> >>

ALL_DIRECTIONS == {DIRECTION_PAIRS[p][q] : p \in 1..3, q \in 1..2}

----------------------------------------------------------------------------
(* room_graph.py: text helpers *)

\* str.lower() on one token
Lower(c) ==
    CASE c = "Entrance" -> "entrance"
      [] c = "Main"     -> "main"
      [] c = "Hall"     -> "hall"
      [] c = "Side"     -> "side"
      [] c = "Room"     -> "room"
      [] c = "Upper"    -> "upper"
      [] c = "Level"    -> "level"
      [] c = "Seed"     -> "seed"
      [] c = "X"        -> "x"
      [] OTHER          -> c

\* _safe_id on one token: lower-case, then the chain of replace() calls
SafeChar(c) ==
    LET l == Lower(c) IN
    CASE l = " "  -> <<"_">>
      [] l = "'"  -> <<>>
      [] l = "-"  -> <<"_">>
      [] l = "/"  -> <<"_">>
      [] l = "("  -> <<>>
      [] l = ")"  -> <<>>
      [] l = ","  -> <<>>
      [] l = "."  -> <<>>
      [] OTHER    -> <<l>>

_safe_id(name) == Concat([k \in 1..Len(name) |-> SafeChar(name[k])])

RECURSIVE LStrip(_)
LStrip(s) == IF s # <<>> /\ Head(s) = " " THEN LStrip(Tail(s)) ELSE s

RECURSIVE RStrip(_)
RStrip(s) == IF s # <<>> /\ s[Len(s)] = " " THEN RStrip(SubSeq(s, 1, Len(s) - 1)) ELSE s

\* str.strip()
Strip(s) == RStrip(LStrip(s))

\* str(n)
Digit(n) == ToString(n)

\* the number of earlier positions of seq holding the value at position k
Earlier(seq, k) == Cardinality({m \in 1..(k - 1) : seq[m] = seq[k]})

\* _generate_names, "Disambiguate duplicates": a repeat gets " <count+1>"
DedupNames(nms) ==
    [k \in 1..Len(nms) |->
        IF Earlier(nms, k) > 0
        THEN nms[k] \o <<" ", Digit(Earlier(nms, k) + 1)>>
        ELSE nms[k]]

\* generate step 2: a repeated id gets "_<count>"
DedupIds(idl) ==
    [k \in 1..Len(idl) |->
        IF Earlier(idl, k) > 0
        THEN idl[k] \o <<"_", Digit(Earlier(idl, k))>>
        ELSE idl[k]]

\* theme.suggested_room_prefixes of the theme the model compiles with
suggested_room_prefixes ==
    << <<"Entrance">>, <<"Main", " ", "Hall">>, <<"Side", " ", "Room">>, <<"Upper", " ", "Level">> >>

\* _generate_names: the generic words that pad a short prefix list
generic ==
    << <<"Chamber">>, <<"Passage">>, <<"Hall">>, <<"Area">>, <<"Zone">>,
       <<"Room">>, <<"Space">>, <<"Level">>, <<"Section">>, <<"Sector">> >>

RECURSIVE Padded(_, _)
\* while len(prefixes) < count: prefixes.extend(generic)
Padded(prefixes, count) ==
    IF Len(prefixes) < count THEN Padded(prefixes \o generic, count) ELSE prefixes

\* an overlay that lets the caller name room 0
Overlay_caller_names_all(picked, custom, count) ==
    [k \in 1..count |->
        IF k <= Len(custom) /\ Strip(custom[k]) # <<>> THEN Strip(custom[k])
        ELSE picked[k]]

\* overlay of the custom names on the shuffled prefixes, room 0 forced to Entrance
Overlay(picked, custom, count) ==
    [k \in 1..count |->
        IF k = 1 THEN <<"Entrance">>
        ELSE IF k <= Len(custom) /\ Strip(custom[k]) # <<>> THEN Strip(custom[k])
        ELSE picked[k]]

\* _generate_names: every list of names the shuffle can yield
_generate_names(count, custom) ==
    {DedupNames(Overlay(picked, custom, count)) :
        picked \in InjectiveSeqs(Padded(suggested_room_prefixes, count), count)}

----------------------------------------------------------------------------
(* room_graph.py: the graph *)

Nodes == 0..(room_count - 1)

UsedFrom(adj, a) == {adj[a][k].d : k \in 1..Len(adj[a])}

\* _get_available_direction: the pairs the shuffled scan can return; empty = (None, None)
_get_available_direction(adj, node_a, node_b) ==
    {p \in Range(DIRECTION_PAIRS) :
        p[1] \notin UsedFrom(adj, node_a) /\ p[2] \notin UsedFrom(adj, node_b)}

\* adjacency[a].append((b, d, r)); adjacency[b].append((a, r, d))
AddEdge(adj, a, b, p) ==
    IF a = b
    THEN [adj EXCEPT ![a] = @ \o <<[n |-> b, d |-> p[1], r |-> p[2]],
                                   [n |-> a, d |-> p[2], r |-> p[1]]>>]
    ELSE [adj EXCEPT ![a] = Append(@, [n |-> b, d |-> p[1], r |-> p[2]]),
                     ![b] = Append(@, [n |-> a, d |-> p[2], r |-> p[1]])]

\* an attachment that tries room 0 alone
ConnectOutcomes_root_only(adj, i, candidates) ==
    {AddEdge(adj, i, 0, p) : p \in _get_available_direction(adj, i, 0)}

\* lines 100-106: the results of attaching i to a connected room with a free slot
ConnectOutcomes(adj, i, candidates) ==
    {AddEdge(adj, i, t, p) : <<t, p>> \in
        {tp \in candidates \X Range(DIRECTION_PAIRS) :
            tp[2] \in _get_available_direction(adj, i, tp[1])}}

SelectSeqNot(s, lightest) ==
    LET Keep(e) == e.n # lightest IN SelectSeq(s, Keep)

\* lines 108-130: detach the first edge of the lightest room and route it through i
RerouteOutcomes(adj, i, candidates) ==
    LET lights == {c \in candidates : \A o \in candidates : Len(adj[c]) <= Len(adj[o])}
        Via(lightest) ==
            IF adj[lightest] = <<>> THEN {adj}
            ELSE
              LET old_j == adj[lightest][1].n
                  a1 == [adj EXCEPT ![lightest] = Tail(@)]
                  a2 == [a1 EXCEPT ![old_j] = SelectSeqNot(@, lightest)]
                  S1 == LET av == _get_available_direction(a2, lightest, i)
                        IN IF av = {} THEN {a2} ELSE {AddEdge(a2, lightest, i, p) : p \in av}
                  S2(a3) == LET av == _get_available_direction(a3, i, old_j)
                            IN IF av = {} THEN {a3} ELSE {AddEdge(a3, i, old_j, p) : p \in av}
              IN UNION {S2(a3) : a3 \in S1}
    IN UNION {Via(l) : l \in lights}

\* BONUS_CONNECTION_RATIO = 0.3: bonus_count = max(2, int(room_count * 0.3))
bonus_count == Max(2, (room_count * 3) \div 10)

ATTEMPT_FACTOR == 20

RECURSIVE ReachFrom(_, _)
\* step 5: breadth-first search from room 0 over adjacency
ReachFrom(adj, seen) ==
    LET more == seen \cup {adj[c][k].n : <<c, k>> \in
                    {ck \in seen \X (1..6) : ck[2] <= Len(adj[ck[1]])}}
    IN IF more = seen THEN seen ELSE ReachFrom(adj, more)

RECURSIVE ForceConnect(_, _, _)
\* lines 166-177: every adjacency the force-connect loop can leave behind
ForceConnect(adj, reachable, unreachable) ==
    IF unreachable = {} THEN {adj}
    ELSE LET idx == CHOOSE u \in unreachable : \A v \in unreachable : u <= v
             opts == {tp \in reachable \X Range(DIRECTION_PAIRS) :
                         tp[2] \in _get_available_direction(adj, idx, tp[1])}
         IN IF opts = {}
            THEN ForceConnect(adj, reachable, unreachable \ {idx})
            ELSE UNION {ForceConnect(AddEdge(adj, idx, tp[1], tp[2]),
                                     reachable \cup {idx}, unreachable \ {idx}) : tp \in opts}

\* _escape_percent: a "%" with no "%" next to it is doubled
_escape_percent(text) ==
    Concat([k \in 1..Len(text) |->
        IF /\ text[k] = "%"
           /\ (k = 1 \/ text[k - 1] # "%")
           /\ (k = Len(text) \/ text[k + 1] # "%")
        THEN <<"%", "%">> ELSE <<text[k]>>])

\* _generate_description: the variable parts of the templated text
_generate_description(room_name, wname) == room_name \o <<" ">> \o wname

\* the index of key in a dict kept as a sequence of records, 0 if absent
IndexOf(dict, key) ==
    IF \E k \in 1..Len(dict) : dict[k].id = key
    THEN CHOOSE k \in 1..Len(dict) : dict[k].id = key
    ELSE 0

\* dict[key] = rec: a new key is appended, an existing key keeps its place
DictPut(dict, rec) ==
    IF IndexOf(dict, rec.id) = 0 THEN Append(dict, rec)
    ELSE [dict EXCEPT ![IndexOf(dict, rec.id)] = rec]

Keys(dict) == {dict[k].id : k \in 1..Len(dict)}

Get(dict, key) == dict[IndexOf(dict, key)]

\* lines 185-189: the exits dict of room i (a later entry of a direction overwrites)
ExitsOf(adj, idl, i) ==
    LET dirs == {d \in ALL_DIRECTIONS : \E k \in 1..Len(adj[i]) : adj[i][k].d = d}
        Last(d) == CHOOSE k \in 1..Len(adj[i]) :
                      /\ adj[i][k].d = d
                      /\ \A m \in (k + 1)..Len(adj[i]) : adj[i][m].d # d
    IN [d \in dirs |-> idl[adj[i][Last(d)].n + 1]]

\* lines 194-200: Room(...)
Room(adj, nms, idl, wname, i) ==
    [id          |-> idl[i + 1],
     name        |-> nms[i + 1],
     description |-> _escape_percent(_generate_description(nms[i + 1], wname)),
     exits       |-> ExitsOf(adj, idl, i),
     properties  |-> {},
     is_start    |-> (i = 0)]

\* step 6: rooms[room_id] = Room(...) for i in range(room_count); a dict keeps a key
\* where it was first inserted and holds the value written last
BuildRooms(adj, nms, idl, wname) ==
    LET firsts == {k \in 1..Len(idl) : \A m \in 1..(k - 1) : idl[m] # idl[k]}
        KeyAt(n) == CHOOSE k \in firsts : Cardinality({m \in firsts : m < k}) = n - 1
        LastOf(k) == CHOOSE m \in 1..Len(idl) :
                        idl[m] = idl[k] /\ \A q \in (m + 1)..Len(idl) : idl[q] # idl[k]
    IN [n \in 1..Cardinality(firsts) |-> Room(adj, nms, idl, wname, LastOf(KeyAt(n)) - 1)]

----------------------------------------------------------------------------
(* world_model.py: ids, records and the World's collections *)

\* an id of two or three words joined by "_"
Id2(a, b) == <<a, "_", b>>
Id3(a, b, c) == <<a, "_", b, "_", c>>

\* the sentinel location 'none' and the empty string
NONE == <<"none">>
EMPTY == <<>>

\* a dict keyed by id whose order is never read: a function on its keys
Put(dict, rec) ==
    [k \in (DOMAIN dict) \cup {rec.id} |-> IF k = rec.id THEN rec ELSE dict[k]]

RECURSIVE PutAll(_, _)
\* dict.update(records)
PutAll(dict, recs) ==
    IF recs = <<>> THEN dict ELSE PutAll(Put(dict, Head(recs)), Tail(recs))

EmptyDict == [k \in {} |-> k]

\* GameObject(...), with the fields the validator and the factories read
GameObject(oid, oname, loc, weapon, consumable) ==
    [id |-> oid, name |-> oname, description |-> <<"A", " ">> \o oname,
     location |-> loc, takeable |-> TRUE, is_weapon |-> weapon,
     is_consumable |-> consumable, is_container |-> FALSE]

\* Transformation(...), with the fields that hold references or text
Transformation(tid, oid, newobj, req, newloc, msg) ==
    [id |-> tid, object_id |-> oid, new_object_id |-> newobj, requires_object |-> req,
     requires_object_2 |-> EMPTY, new_location |-> newloc, message |-> msg]

\* WorldConfig.room_ids as a list: list(world.rooms.keys())
RoomIdList(rms) == [k \in 1..Len(rms) |-> rms[k].id]

\* WorldConfig.start_room: the first room flagged start, or None (here EMPTY)
start_room(rms) ==
    IF \E k \in 1..Len(rms) : rms[k].is_start
    THEN rms[CHOOSE k \in 1..Len(rms) :
                /\ rms[k].is_start
                /\ \A m \in 1..(k - 1) : ~rms[m].is_start].id
    ELSE EMPTY

\* world.rooms[room].properties[key] = 'true'
SetProperty(rms, rid, key) ==
    [k \in 1..Len(rms) |->
        IF rms[k].id = rid THEN [rms[k] EXCEPT !.properties = @ \cup {key}] ELSE rms[k]]

----------------------------------------------------------------------------
(* physics_templates.py: the twelve builders *)

PhysicsType ==
    {"temperature", "energy", "lock_key", "crafting", "teleportation", "disguise",
     "explosives", "bribery", "magic", "medical", "growth", "alien_tech"}

Msg == <<"msg">>

\* a package: objects and transformations (lists), and the room the builder tags
Package(tag, objs, trans, prop_room, prop_key) ==
    [physics_type |-> tag, objects |-> objs, transformations |-> trans,
     prop_room |-> prop_room, prop_key |-> prop_key]

\* r1, r2, r3: the outcomes of the builder's _random_room calls, in call order
_build_energy(rms, r1, r2, r3) ==
    Package("energy",
        << GameObject(Id3("power", "cell", "inert"), <<"inert">>, r2, FALSE, FALSE),
           GameObject(Id3("power", "cell", "charged"), <<"charged">>, NONE, FALSE, FALSE) >>,
        << Transformation(Id2("energy", "charge"), Id3("power", "cell", "inert"),
                          Id3("power", "cell", "charged"), EMPTY, EMPTY, Msg) >>,
        r1, "power_zone")

_build_lock_key(rms, r1, r2, r3) ==
    Package("lock_key",
        << GameObject(Id2("master", "key"), <<"key">>, r1, FALSE, FALSE) >>,
        << Transformation(Id2("door", "unlocked"), Id2("master", "key"),
                          EMPTY, EMPTY, EMPTY, Msg) >>,
        RoomIdList(rms)[Min(2, Len(rms) - 1) + 1], "locked")

_build_crafting(rms, r1, r2, r3) ==
    Package("crafting",
        << GameObject(Id2("ingredient", "a"), <<"a">>, r1, FALSE, FALSE),
           GameObject(Id2("ingredient", "b"), <<"b">>, r2, FALSE, FALSE),
           GameObject(Id2("crafted", "result"), <<"item">>, NONE, FALSE, TRUE) >>,
        << Transformation(Id2("craft", "combine"), Id2("ingredient", "a"),
                          Id2("crafted", "result"), Id2("ingredient", "b"), EMPTY, Msg) >>,
        EMPTY, "")

_build_explosives(rms, r1, r2, r3) ==
    Package("explosives",
        << GameObject(Id2("explosive", "charge"), <<"charge">>, r1, TRUE, FALSE),
           GameObject(<<"detonator">>, <<"detonator">>, r2, FALSE, FALSE) >>,
        << Transformation(Id2("arm", "explosive"), Id2("explosive", "charge"),
                          EMPTY, <<"detonator">>, EMPTY, Msg),
           Transformation(<<"detonate">>, Id2("explosive", "charge"),
                          EMPTY, EMPTY, EMPTY, Msg) >>,
        EMPTY, "")

_build_disguise(rms, r1, r2, r3) ==
    Package("disguise",
        << GameObject(Id2("disguise", "item"), <<"disguise">>, r1, FALSE, FALSE) >>,
        << Transformation(Id2("wear", "disguise"), Id2("disguise", "item"),
                          EMPTY, EMPTY, EMPTY, Msg) >>,
        EMPTY, "")

_build_bribery(rms, r1, r2, r3) ==
    Package("bribery",
        << GameObject(Id2("bribe", "item"), <<"bribe">>, r1, FALSE, TRUE) >>,
        << Transformation(Id2("bribe", "used"), Id2("bribe", "item"),
                          EMPTY, EMPTY, EMPTY, Msg) >>,
        EMPTY, "")

_build_medical(rms, r1, r2, r3) ==
    Package("medical",
        << GameObject(Id2("medical", "kit"), <<"kit">>, r1, FALSE, TRUE),
           GameObject(Id2("advanced", "medicine"), <<"medicine">>, r2, FALSE, TRUE) >>,
        << Transformation(Id2("apply", "treatment"), Id2("medical", "kit"),
                          EMPTY, EMPTY, EMPTY, Msg) >>,
        EMPTY, "")

_build_magic(rms, r1, r2, r3) ==
    Package("magic",
        << GameObject(Id2("spell", "scroll"), <<"scroll">>, r1, FALSE, FALSE),
           GameObject(Id2("enchanted", "item"), <<"enchanted">>, NONE, FALSE, FALSE) >>,
        << Transformation(Id2("cast", "spell"), Id2("spell", "scroll"),
                          Id2("enchanted", "item"), EMPTY, EMPTY, Msg) >>,
        EMPTY, "")

\* dest_room = rooms[-1] if len(rooms) > 1 else rooms[0]; the message names that room
_build_teleportation(rms, r1, r2, r3) ==
    LET dest_room == IF Len(rms) > 1 THEN rms[Len(rms)].id ELSE rms[1].id
    IN Package("teleportation",
        << GameObject(Id2("portal", "device"), <<"portal">>, r1, FALSE, FALSE) >>,
        << Transformation(Id2("teleport", "activate"), Id2("portal", "device"),
                          EMPTY, EMPTY, dest_room,
                          <<"You", " ", "are", " ", "in", " ", "the", " ">>
                              \o rms[IF Len(rms) > 1 THEN Len(rms) ELSE 1].name) >>,
        EMPTY, "")

_build_temperature(rms, r1, r2, r3) ==
    Package("temperature",
        << GameObject(Id2("water", "container"), <<"water">>, r1, FALSE, FALSE),
           GameObject(Id2("ice", "block"), <<"ice">>, NONE, FALSE, FALSE) >>,
        << Transformation(Id2("water", "freezes"), Id2("water", "container"),
                          Id2("ice", "block"), EMPTY, EMPTY, Msg),
           Transformation(Id2("ice", "melts"), Id2("ice", "block"),
                          Id2("water", "container"), EMPTY, EMPTY, Msg) >>,
        EMPTY, "")

_build_growth(rms, r1, r2, r3) ==
    Package("growth",
        << GameObject(<<"seed">>, <<"seed">>, r1, FALSE, FALSE),
           GameObject(Id2("grown", "plant"), <<"plant">>, NONE, FALSE, TRUE) >>,
        << Transformation(Id2("seed", "grows"), <<"seed">>,
                          Id2("grown", "plant"), EMPTY, EMPTY, Msg) >>,
        EMPTY, "")

_build_alien_tech(rms, r1, r2, r3) ==
    Package("alien_tech",
        << GameObject(Id2("alien", "artifact"), <<"artifact">>, r1, FALSE, FALSE),
           GameObject(Id2("scanner", "device"), <<"scanner">>, r2, FALSE, FALSE),
           GameObject(Id2("activated", "artifact"), <<"activated">>, NONE, FALSE, FALSE) >>,
        << Transformation(Id2("alien", "scan"), Id2("alien", "artifact"),
                          EMPTY, Id2("scanner", "device"), EMPTY, Msg),
           Transformation(Id2("alien", "activate"), Id2("alien", "artifact"),
                          Id2("activated", "artifact"), EMPTY, EMPTY, Msg) >>,
        EMPTY, "")

\* PhysicsTemplateLibrary.get_package: the builder table
get_package(physics_type, rms, r1, r2, r3) ==
    CASE physics_type = "temperature"   -> _build_temperature(rms, r1, r2, r3)
      [] physics_type = "energy"        -> _build_energy(rms, r1, r2, r3)
      [] physics_type = "lock_key"      -> _build_lock_key(rms, r1, r2, r3)
      [] physics_type = "crafting"      -> _build_crafting(rms, r1, r2, r3)
      [] physics_type = "teleportation" -> _build_teleportation(rms, r1, r2, r3)
      [] physics_type = "disguise"      -> _build_disguise(rms, r1, r2, r3)
      [] physics_type = "explosives"    -> _build_explosives(rms, r1, r2, r3)
      [] physics_type = "bribery"       -> _build_bribery(rms, r1, r2, r3)
      [] physics_type = "magic"         -> _build_magic(rms, r1, r2, r3)
      [] physics_type = "medical"       -> _build_medical(rms, r1, r2, r3)
      [] physics_type = "growth"        -> _build_growth(rms, r1, r2, r3)
      [] physics_type = "alien_tech"    -> _build_alien_tech(rms, r1, r2, r3)
      [] OTHER                          -> _build_lock_key(rms, r1, r2, r3)

\* how many _random_room calls decide the package's content
RandomCalls(physics_type) ==
    CASE physics_type \in {"crafting", "explosives", "medical", "alien_tech", "energy"} -> 2
      [] physics_type = "lock_key" -> 1
      [] OTHER -> 1

\* an inject that merges the transformations but leaves the objects out
inject_objects_skipped(pkg, objs) == objs

\* PhysicsPackage.inject: the world's objects, transformations and applied list after it
inject_objects(pkg, objs) == PutAll(objs, pkg.objects)

inject_transformations(pkg, trans) == PutAll(trans, pkg.transformations)

inject_applied(pkg, applied) ==
    IF pkg.physics_type \in Range(applied) THEN applied ELSE Append(applied, pkg.physics_type)

\* the builder's side effect on the rooms: if room in world.rooms: properties[key] = 'true'
TagRoom(pkg, rms) ==
    IF pkg.prop_key # "" THEN SetProperty(rms, pkg.prop_room, pkg.prop_key) ELSE rms

----------------------------------------------------------------------------
(* generator.py: starter objects *)

\* theme.suggested_object_types[0] of the theme the model compiles with
suggested_object_type == <<"key">>

\* _build_starter_objects: four objects placed round-robin over the room ids
_build_starter_objects(rms) ==
    IF Len(rms) = 0 THEN EmptyDict
    ELSE LET room_ids == RoomIdList(rms)
             At(i) == room_ids[(i % Len(room_ids)) + 1]
         IN PutAll(EmptyDict,
              << GameObject(Id2("starter", "weapon"), suggested_object_type, At(0), TRUE, FALSE),
                 GameObject(Id2("starter", "health"), <<"health", " ", "item">>, At(1), FALSE, TRUE),
                 GameObject(Id2("starter", "key"), <<"access", " ", "key">>, At(2), FALSE, FALSE),
                 GameObject(Id2("starter", "document"), <<"important", " ", "document">>, At(3),
                            FALSE, FALSE) >>)

----------------------------------------------------------------------------
(* sprite_factory.py *)

\* str.lower() on the tokens of character names
LowerName(c) ==
    CASE c = "Bob"   -> "bob"
      [] c = "King"  -> "king"
      [] c = "Boss"  -> "boss"
      [] c = "Guard" -> "guard"
      [] OTHER       -> Lower(c)

\* _make_id: lower, strip, three replace() calls, then '_template'
_make_id(name) ==
    LET l == Strip([k \in 1..Len(name) |-> LowerName(name[k])])
        Rep(c) == CASE c = " " -> <<"_">> [] c = "'" -> <<>> [] c = "-" -> <<"_">>
                    [] OTHER -> <<c>>
    IN Concat([k \in 1..Len(l) |-> Rep(l[k])]) \o <<"_", "template">>

\* ROLE_KEYWORDS, the rows whose keywords the model's names use
ROLE_KEYWORDS ==
    << [role |-> "villain", keywords |-> {"guard", "boss", "evil"}],
       [role |-> "boss",    keywords |-> {"boss", "chief", "king"}],
       [role |-> "ally",    keywords |-> {"ally", "friend", "hero"}],
       [role |-> "neutral", keywords |-> {"clerk", "cook", "maid"}],
       [role |-> "guard",   keywords |-> {"guard", "sentry", "patrol"}] >>

\* the order of the SpriteRole enumeration, which max() scans
SpriteRole == <<"hero", "villain", "neutral", "boss", "ally", "guard">>

\* _classify: the role of a name (no override is matched by the model's names)
RoleScore(name, role) ==
    LET l == {LowerName(name[k]) : k \in 1..Len(name)}
        rows == {k \in 1..Len(ROLE_KEYWORDS) : ROLE_KEYWORDS[k].role = role}
    IN IF rows = {} THEN 0
       ELSE Cardinality(ROLE_KEYWORDS[CHOOSE k \in rows : TRUE].keywords \cap l)

_classify(name) ==
    LET best == CHOOSE k \in 1..Len(SpriteRole) :
                    /\ \A m \in 1..Len(SpriteRole) :
                          RoleScore(name, SpriteRole[m]) <= RoleScore(name, SpriteRole[k])
                    /\ \A m \in 1..(k - 1) :
                          RoleScore(name, SpriteRole[m]) < RoleScore(name, SpriteRole[k])
    IN IF RoleScore(name, SpriteRole[best]) = 0 THEN "neutral" ELSE SpriteRole[best]

\* list(dict.fromkeys(spawn)): duplicates dropped, first occurrence kept
DropRepeats(seq) ==
    LET keep == {k \in 1..Len(seq) : \A m \in 1..(k - 1) : seq[m] # seq[k]}
        Nth(n) == CHOOSE k \in keep : Cardinality({m \in keep : m < k}) = n - 1
    IN [n \in 1..Cardinality(keep) |-> seq[Nth(n)]]

\* the distribution without the floor of one room per sprite
_assign_spawn_rooms_unfloored(idx, total, room_ids) ==
    IF Len(room_ids) = 0 THEN <<>>
    ELSE LET rooms_per == Len(room_ids) \div Max(1, total)
             start == (idx * rooms_per) % Len(room_ids)
         IN DropRepeats([j \in 1..Min(2, rooms_per) |->
                            room_ids[((start + (j - 1)) % Len(room_ids)) + 1]])

\* _assign_spawn_rooms(idx, total, room_ids)
_assign_spawn_rooms(idx, total, room_ids) ==
    IF Len(room_ids) = 0 THEN <<>>
    ELSE LET rooms_per == Max(1, Len(room_ids) \div Max(1, total))
             start == (idx * rooms_per) % Len(room_ids)
         IN DropRepeats([j \in 1..Min(2, rooms_per) |->
                            room_ids[((start + (j - 1)) % Len(room_ids)) + 1]])

\* _assign_loot: the ids random.choice can return; {EMPTY} when there is no candidate
_assign_loot(objs, role) ==
    LET candidates == {o \in DOMAIN objs : objs[o].takeable /\ objs[o].location # NONE}
        best == {o \in candidates : objs[o].is_weapon \/ objs[o].is_consumable}
    IN IF candidates = {} THEN {EMPTY}
       ELSE IF role = "boss" /\ best # {} THEN best
       ELSE candidates

\* Sprite(...) as generate_sprites builds it
Sprite(sid, name, role, spawn, loot) ==
    [id |-> sid, name |-> name \o <<" ", "(template)">>,
     description |-> name \o <<".">>, role |-> role,
     spawn_rooms |-> spawn, loot_on_death |-> loot]

RECURSIVE SpritesFrom(_, _, _, _, _)
\* the loop of generate_sprites from index i on; loots[i] is the loot drawn for name i
SpritesFrom(names_, room_ids, loots, i, acc) ==
    IF i > Len(names_) THEN acc
    ELSE IF Strip(names_[i]) = <<>> THEN SpritesFrom(names_, room_ids, loots, i + 1, acc)
    ELSE LET base == _make_id(names_[i])
             sid == IF base \in DOMAIN acc THEN base \o <<"_", Digit(i - 1)>> ELSE base
             spr == Sprite(sid, names_[i], _classify(names_[i]),
                           _assign_spawn_rooms(i - 1, Len(names_), room_ids), loots[i])
         IN SpritesFrom(names_, room_ids, loots, i + 1, Put(acc, spr))

\* a guard that looks at the names only
generate_sprites_names_only(names_, rms, objs) ==
    IF Len(names_) = 0 THEN {EmptyDict}
    ELSE {SpritesFrom(names_, RoomIdList(rms), loots, 1, EmptyDict) :
            loots \in {l \in [1..Len(names_) -> (DOMAIN objs) \cup {EMPTY}] :
                         \A k \in 1..Len(names_) : l[k] \in _assign_loot(objs, _classify(names_[k]))}}

\* generate_sprites: every sprite map the loot draws can yield
generate_sprites(names_, rms, objs) ==
    IF Len(names_) = 0 \/ Len(rms) = 0 THEN {EmptyDict}
    ELSE {SpritesFrom(names_, RoomIdList(rms), loots, 1, EmptyDict) :
            loots \in {l \in [1..Len(names_) -> (DOMAIN objs) \cup {EMPTY}] :
                         \A k \in 1..Len(names_) : l[k] \in _assign_loot(objs, _classify(names_[k]))}}

----------------------------------------------------------------------------
(* validation_engine.py: ValidationEngine.validate *)

\* re.search(r'(?<!%)%(?!%)', text): a "%" with no "%" next to it
HasBarePct(text) ==
    \E k \in 1..Len(text) :
        /\ text[k] = "%"
        /\ (k = 1 \/ text[k - 1] # "%")
        /\ (k = Len(text) \/ text[k + 1] # "%")

\* ', '.join(list)
JoinComma(list) ==
    Concat([k \in 1..Len(list) |-> IF k = 1 THEN list[k] ELSE <<",", " ">> \o list[k]])

\* the values of Room.to_ini_section()
RoomValues(r) ==
    {r.name, r.description} \cup {r.exits[d] : d \in DOMAIN r.exits}
        \cup (IF r.properties # {} \/ r.is_start THEN {<<"true">>} ELSE {})

\* the values of GameObject.to_ini_section()
ObjectValues(o) == {o.name, o.description, o.location, <<"true">>}

\* the values of Sprite.to_ini_section()
SpriteValues(sp) ==
    {sp.name, sp.description, JoinComma(sp.spawn_rooms), <<"sprite">>}
        \cup (IF sp.loot_on_death # EMPTY THEN {sp.loot_on_death} ELSE {})

\* the values of Transformation.to_ini_section()
TransformValues(t) ==
    {t.object_id, t.message}
        \cup {v \in {t.new_object_id, t.requires_object, t.requires_object_2, t.new_location} :
                v # EMPTY}

\* SDConfig.to_ini_sections(): section name -> keys
SdSections(sd) ==
    [sec \in {<<"settings">>, <<"prompt", "_", "style">>, <<"SD", "1">>} |->
        IF sec = <<"SD", "1">> THEN {"host", "port", "weight", "timeout", "enabled"}
        ELSE IF sec = <<"settings">> THEN {"default_steps", "default_sampler"}
        ELSE {"scene_suffix", "negative_prompt"}]

\* sec.upper().startswith('SD')
StartsWithSD(sec) == sec # <<>> /\ Head(sec) \in {"SD", "sd", "Sd", "sD"}

\* validate check 3: the rooms the breadth-first search reaches from the start room
RECURSIVE ValidatorReach(_, _)
ValidatorReach(rms, seen) ==
    LET room_ids == Range(RoomIdList(rms))
        more == seen \cup {t \in room_ids :
                    \E c \in seen \cap room_ids :
                        \E d \in DOMAIN Get(rms, c).exits : Get(rms, c).exits[d] = t}
    IN IF more = seen THEN seen ELSE ValidatorReach(rms, more)

\* the errors of checks 1-9, as <<check, section id, offending value>>
ValidateRecords(rms, objs, sprs) ==
    LET room_ids == Range(RoomIdList(rms))
        object_ids == DOMAIN objs
        starts == {k \in 1..Len(rms) : rms[k].is_start}
        first == rms[CHOOSE k \in starts : \A m \in starts : k <= m].id
    IN  {<<"check1", rms[k].id, rms[k].exits[d]>> : <<k, d>> \in
            {kd \in (1..Len(rms)) \X ALL_DIRECTIONS :
                /\ kd[2] \in DOMAIN rms[kd[1]].exits
                /\ rms[kd[1]].exits[kd[2]] \notin room_ids}}
        \cup (IF Cardinality(starts) # 1 THEN {<<"check2", EMPTY, EMPTY>>} ELSE {})
        \cup (IF starts # {} /\ Len(rms) > 1
              THEN {<<"check3", rid, EMPTY>> : rid \in room_ids \ ValidatorReach(rms, {first})}
              ELSE {})
        \cup {<<"check4", rms[k].id, EMPTY>> : k \in
                {k \in 1..Len(rms) : Strip(rms[k].name) = <<>> \/ Strip(rms[k].description) = <<>>}}
        \cup {<<"check5", o, objs[o].location>> : o \in
                {o \in object_ids :
                    /\ objs[o].location \notin {EMPTY, NONE}
                    /\ \/ objs[o].location \notin room_ids \cup object_ids
                       \/ /\ objs[o].location \in object_ids
                          /\ ~objs[objs[o].location].is_container}}
        \cup {<<"check6", o, EMPTY>> : o \in
                {o \in object_ids : Strip(objs[o].name) = <<>> \/ Strip(objs[o].description) = <<>>}}
        \cup {<<"check7", sr[1], sr[2]>> : sr \in
                {sr \in (DOMAIN sprs) \X (room_ids \cup UNION {Range(sprs[x].spawn_rooms) : x \in DOMAIN sprs}) :
                    sr[2] \in Range(sprs[sr[1]].spawn_rooms) /\ sr[2] \notin room_ids}}
        \cup {<<"check8", sp, sprs[sp].loot_on_death>> : sp \in
                {sp \in DOMAIN sprs :
                    sprs[sp].loot_on_death # EMPTY /\ sprs[sp].loot_on_death \notin object_ids}}
        \cup {<<"check9", sp, EMPTY>> : sp \in {sp \in DOMAIN sprs : Strip(sprs[sp].name) = <<>>}}

\* the errors of checks 10-14
ValidateReferences(rms, objs, trans, respawn) ==
    LET room_ids == Range(RoomIdList(rms))
        object_ids == DOMAIN objs
    IN  {<<"check10", t, trans[t].object_id>> : t \in {t \in DOMAIN trans : trans[t].object_id \notin object_ids}}
        \cup {<<"check11", t, trans[t].new_object_id>> : t \in
                {t \in DOMAIN trans :
                    trans[t].new_object_id # EMPTY /\ trans[t].new_object_id \notin object_ids}}
        \cup {<<"check12", t, trans[t].requires_object>> : t \in
                {t \in DOMAIN trans :
                    trans[t].requires_object # EMPTY /\ trans[t].requires_object \notin object_ids}}
        \cup {<<"check12", t, trans[t].requires_object_2>> : t \in
                {t \in DOMAIN trans :
                    trans[t].requires_object_2 # EMPTY /\ trans[t].requires_object_2 \notin object_ids}}
        \cup {<<"check13", t, trans[t].new_location>> : t \in
                {t \in DOMAIN trans :
                    trans[t].new_location # EMPTY /\ trans[t].new_location \notin room_ids}}
        \cup (IF respawn # EMPTY /\ respawn \notin room_ids THEN {<<"check14", EMPTY, respawn>>} ELSE {})

\* the errors of checks 15-18
ValidateFormat(rms, objs, sprs, trans, sd) ==
    LET secs == SdSections(sd)
        special == {sec \in DOMAIN secs : sec \notin {<<"settings">>, <<"prompt", "_", "style">>}}
        room_ids == Range(RoomIdList(rms))
        \* check 18 walks the four id lists one after the other
        Count(x) == (IF x \in room_ids THEN 1 ELSE 0) + (IF x \in DOMAIN objs THEN 1 ELSE 0)
                    + (IF x \in DOMAIN sprs THEN 1 ELSE 0) + (IF x \in DOMAIN trans THEN 1 ELSE 0)
    IN  {<<"check15", sec, EMPTY>> : sec \in {sec \in special : ~StartsWithSD(sec)}}
        \cup {<<"check16", sec, EMPTY>> : sec \in
                {sec \in special : "url" \in secs[sec] \/ "host" \notin secs[sec] \/ "port" \notin secs[sec]}}
        \cup {<<"check17", rms[k].id, EMPTY>> : k \in
                {k \in 1..Len(rms) : \E v \in RoomValues(rms[k]) : HasBarePct(v)}}
        \cup {<<"check17", o, EMPTY>> : o \in {o \in DOMAIN objs : \E v \in ObjectValues(objs[o]) : HasBarePct(v)}}
        \cup {<<"check17", sp, EMPTY>> : sp \in {sp \in DOMAIN sprs : \E v \in SpriteValues(sprs[sp]) : HasBarePct(v)}}
        \cup {<<"check17", t, EMPTY>> : t \in {t \in DOMAIN trans : \E v \in TransformValues(trans[t]) : HasBarePct(v)}}
        \cup {<<"check18", x, EMPTY>> : x \in
                {x \in room_ids \cup DOMAIN objs \cup DOMAIN sprs \cup DOMAIN trans : Count(x) > 1}}

\* ValidationEngine.validate: the errors it adds
validate(rms, objs, sprs, trans, respawn, sd) ==
    ValidateRecords(rms, objs, sprs)
        \cup ValidateReferences(rms, objs, trans, respawn)
        \cup ValidateFormat(rms, objs, sprs, trans, sd)

\* a validator that warns of nothing
validate_warnings_none(sprs) == {}

\* the warnings it adds: a sprite with no spawn rooms
validate_warnings(sprs) == {<<"check7", sp>> : sp \in {sp \in DOMAIN sprs : sprs[sp].spawn_rooms = <<>>}}

----------------------------------------------------------------------------
(* The six written artifacts *)

\* the comment line at the head of a written file, which carries the world name
Header(label, wname) == <<"#", " ", label, " ", "-", " ">> \o wname

\* an artifact that holds no section
NoSections == [header |-> EMPTY, sections |-> EmptyDict]

\* the output directory before anything is written
NoFiles ==
    [exists |-> FALSE,
     rooms |-> [header |-> EMPTY, sections |-> <<>>],
     objects |-> NoSections, sprites |-> NoSections, transformations |-> NoSections,
     combat |-> [header |-> EMPTY, texts |-> {}],
     sd |-> NoSections]

\* INIWriter.write_all: one section per record, one key = value line per entry of
\* to_ini_section(), values written as they are
write_all(rms, objs, sprs, trans, respawn, host, wname) ==
    [exists |-> TRUE,
     rooms |->
        [header |-> Header("Room", wname),
         sections |-> [k \in 1..Len(rms) |->
            [id |-> rms[k].id, exits |-> rms[k].exits,
             texts |-> RoomValues(rms[k])]]],
     objects |->
        [header |-> Header("Object", wname),
         sections |-> [o \in DOMAIN objs |->
            [location |-> objs[o].location, texts |-> ObjectValues(objs[o])]]],
     sprites |->
        [header |-> Header("Sprite", wname),
         sections |-> [x \in DOMAIN sprs |->
            [spawn_rooms |-> JoinComma(sprs[x].spawn_rooms), texts |-> SpriteValues(sprs[x])]]],
     transformations |->
        [header |-> Header("Transformation", wname),
         sections |-> [t \in DOMAIN trans |->
            [object_id |-> trans[t].object_id, new_object_id |-> trans[t].new_object_id,
             requires_object |-> trans[t].requires_object,
             requires_object_2 |-> trans[t].requires_object_2,
             texts |-> TransformValues(trans[t])]]],
     combat |-> [header |-> Header("Combat", wname), texts |-> {respawn}],
     sd |->
        [header |-> Header("SD", wname),
         sections |-> [sec \in DOMAIN SdSections(host) |->
            IF sec = <<"SD", "1">> THEN {host} ELSE {}]]]

----------------------------------------------------------------------------
(* validation_engine.py: RoundTripVerifier.verify *)

ENGINE_DIRECTIONS == {"north", "south", "east", "west", "up", "down"}

INVALID_FOR_ENGINE == {"northeast", "northwest", "southeast", "southwest", "enter", "exit"}

RECURSIVE Fields(_, _, _)
\* raw.split(',')
Fields(text, cur, acc) ==
    IF text = <<>> THEN Append(acc, cur)
    ELSE IF Head(text) = "," THEN Fields(Tail(text), <<>>, Append(acc, cur))
    ELSE Fields(Tail(text), Append(cur, Head(text)), acc)

\* [x.strip() for x in raw.split(',') if x.strip()]
SplitComma(raw) ==
    LET fs == Fields(raw, <<>>, <<>>)
        NonBlank(x) == x # <<>>
    IN SelectSeq([k \in 1..Len(fs) |-> Strip(fs[k])], NonBlank)

\* set(config.sections()) of rooms.ini
SectionIds(file) == {file.sections[k].id : k \in 1..Len(file.sections)}

\* the lines of each file that hold text: the header, the section ids and the values
Lines(f) ==
    [rooms |-> {f.rooms.header} \cup SectionIds(f.rooms)
                \cup UNION {f.rooms.sections[k].texts : k \in 1..Len(f.rooms.sections)}
                \cup UNION {{f.rooms.sections[k].exits[d] : d \in DOMAIN f.rooms.sections[k].exits} :
                                k \in 1..Len(f.rooms.sections)},
     objects |-> {f.objects.header} \cup DOMAIN f.objects.sections
                \cup UNION {f.objects.sections[o].texts \cup {f.objects.sections[o].location} :
                                o \in DOMAIN f.objects.sections},
     sprites |-> {f.sprites.header} \cup DOMAIN f.sprites.sections
                \cup UNION {f.sprites.sections[x].texts \cup {f.sprites.sections[x].spawn_rooms} :
                                x \in DOMAIN f.sprites.sections},
     transformations |-> {f.transformations.header} \cup DOMAIN f.transformations.sections
                \cup UNION {f.transformations.sections[t].texts : t \in DOMAIN f.transformations.sections},
     combat |-> {f.combat.header} \cup f.combat.texts,
     sd |-> {f.sd.header} \cup DOMAIN f.sd.sections
                \cup UNION {f.sd.sections[sec] : sec \in DOMAIN f.sd.sections}]

\* the reference keys of a transformations.ini section that hold a value
TransformRefs(sec) ==
    {v \in {sec.object_id, sec.new_object_id, sec.requires_object, sec.requires_object_2} :
        v # EMPTY}

\* RoundTripVerifier.verify: the errors it adds, as <<kind, section, value>>
verify(f) ==
    IF ~f.exists THEN {<<"missing", EMPTY, EMPTY>>}
    ELSE
    LET rooms_ == SectionIds(f.rooms)
        objects_ == DOMAIN f.objects.sections
        secs == {f.rooms.sections[k] : k \in 1..Len(f.rooms.sections)}
        lines == Lines(f)
    IN  {<<"exit", sd[1].id, sd[1].exits[sd[2]]>> : sd \in
            {sd \in secs \X ENGINE_DIRECTIONS :
                sd[2] \in DOMAIN sd[1].exits /\ sd[1].exits[sd[2]] \notin rooms_}}
        \cup {<<"direction", sd[1].id, <<sd[2]>> >> : sd \in
                {sd \in secs \X INVALID_FOR_ENGINE : sd[2] \in DOMAIN sd[1].exits}}
        \cup {<<"location", o, f.objects.sections[o].location>> : o \in
                {o \in objects_ :
                    LET loc == f.objects.sections[o].location
                    IN loc \notin {EMPTY, NONE} /\ loc \notin rooms_ /\ loc \notin objects_}}
        \cup UNION {{<<"spawn_room", x, r>> : r \in
                        {r \in Range(SplitComma(f.sprites.sections[x].spawn_rooms)) : r \notin rooms_}} :
                    x \in DOMAIN f.sprites.sections}
        \cup UNION {{<<"transform", t, v>> : v \in
                        {v \in TransformRefs(f.transformations.sections[t]) : v \notin objects_}} :
                    t \in DOMAIN f.transformations.sections}
        \cup {<<"sd", sec, EMPTY>> : sec \in
                {sec \in DOMAIN f.sd.sections :
                    sec \notin {<<"settings">>, <<"prompt", "_", "style">>} /\ ~StartsWithSD(sec)}}
        \cup UNION {{<<"percent", <<name>>, line>> : line \in
                        {line \in lines[name] : HasBarePct(line)}} :
                    name \in DOMAIN lines}

\* verify never calls add_warning: the result it returns has no warning
verify_warnings(f) == {}

\* a result that reports itself valid whatever its error list holds
is_valid_always(errors) == TRUE

\* ValidationResult.is_valid
is_valid(errors) == errors = {}

----------------------------------------------------------------------------
(* create_world.py: the auto-repair of STEP 5 *)

DIRECTIONS == ENGINE_DIRECTIONS \cup INVALID_FOR_ENGINE

\* the exits of one rooms.ini section that the repair removes
BrokenExits(sec, valid_rooms) ==
    {d \in DIRECTIONS \cap DOMAIN sec.exits : sec.exits[d] \notin valid_rooms}

\* a repair that removes every exit of a room that has a broken one
RepairExits_whole_room(file, valid_rooms) ==
    [k \in 1..Len(file.sections) |->
        IF BrokenExits(file.sections[k], valid_rooms) = {} THEN file.sections[k]
        ELSE [file.sections[k] EXCEPT !.exits = [d \in {} |-> d]]]

\* lines 375-383: remove_option for every broken exit
RepairExits(file, valid_rooms) ==
    [k \in 1..Len(file.sections) |->
        [file.sections[k] EXCEPT !.exits =
            [d \in (DOMAIN @) \ BrokenExits(file.sections[k], valid_rooms) |-> @[d]]]]

RECURSIVE Sum(_, _)
Sum(fn, S) == IF S = {} THEN 0 ELSE LET x == CHOOSE y \in S : TRUE IN fn[x] + Sum(fn, S \ {x})

\* repaired: the number of exits removed
CountBroken(file, valid_rooms) ==
    Sum([k \in 1..Len(file.sections) |-> Cardinality(BrokenExits(file.sections[k], valid_rooms))],
        1..Len(file.sections))

\* the condition under which an object is relocated
NeedsRelocation(sec, valid_rooms) ==
    sec.location \notin {EMPTY, NONE} /\ sec.location \notin valid_rooms

\* a fallback of 'entrance' whether or not rooms.ini has that section
Fallback_entrance(valid_rooms) == {<<"entrance">>}

\* 'entrance' if 'entrance' in valid_rooms_objs else list(valid_rooms_objs)[0]: a set is
\* listed in no fixed order, so its first element is any of its members
Fallback(valid_rooms) ==
    IF <<"entrance">> \in valid_rooms THEN {<<"entrance">>} ELSE valid_rooms

\* lines 399-409: obj_cfg.set(section, 'location', fallback)
RepairObjects(file, valid_rooms, fallback) ==
    [o \in DOMAIN file.sections |->
        IF NeedsRelocation(file.sections[o], valid_rooms)
        THEN [file.sections[o] EXCEPT !.location = fallback]
        ELSE file.sections[o]]

\* valid_spawns = [r for r in rooms_list if r in valid_rooms_objs]
ValidSpawns(sec, valid_rooms) ==
    LET Known(r) == r \in valid_rooms IN SelectSeq(SplitComma(sec.spawn_rooms), Known)

\* len(valid_spawns) < len(rooms_list)
NeedsSpawnFix(sec, valid_rooms) ==
    Len(ValidSpawns(sec, valid_rooms)) < Len(SplitComma(sec.spawn_rooms))

\* lines 423-437: spr_cfg.set(section, 'spawn_rooms', ', '.join(fixed))
RepairSprites(file, valid_rooms, fallback) ==
    [x \in DOMAIN file.sections |->
        IF NeedsSpawnFix(file.sections[x], valid_rooms)
        THEN [file.sections[x] EXCEPT !.spawn_rooms =
                JoinComma(IF ValidSpawns(file.sections[x], valid_rooms) # <<>>
                          THEN ValidSpawns(file.sections[x], valid_rooms)
                          ELSE <<fallback>>)]
        ELSE file.sections[x]]

----------------------------------------------------------------------------
(* Values of the variables a run has not yet assigned *)

NoResult ==
    [success |-> FALSE, world |-> FALSE, validation_errors |-> {}, validation_warnings |-> {},
     roundtrip_errors |-> {}, written_files |-> {}]

GenIdle ==
    /\ adjacency = <<>> /\ next_i = 0 /\ attempts = 0 /\ added = 0
    /\ rerouted = FALSE /\ names = <<>> /\ ids = <<>>

WorldIdle ==
    /\ objects = EmptyDict /\ transformations = EmptyDict /\ sprites = EmptyDict
    /\ physics_applied = <<>> /\ respawn_location = EMPTY /\ sd_host = EMPTY

ThemeIdle == theme_name = <<>> /\ best_theme = "unclassified"

\* no chain built and no interview begun; ctx.confidence and ctx.method have the
\* defaults of WorldContext
LlmIdle ==
    /\ providers = <<>> /\ chain_call = <<>> /\ chain_text = <<>> /\ last_provider = "none"
    /\ prompts = <<>> /\ facts = [setting |-> FALSE, characters |-> FALSE]
    /\ confidence = "low" /\ method = "fallback"

RunIdle ==
    /\ physics_to_apply = <<>> /\ validation_errors = {} /\ validation_warnings = {}
    /\ result = NoResult
    /\ ThemeIdle /\ LlmIdle

FilesIdle ==
    /\ files = NoFiles /\ log = <<>>
    /\ repaired = 0 /\ obj_repaired = 0 /\ spr_repaired = 0 /\ final_errors = {}

----------------------------------------------------------------------------
(* room_graph.py: RoomGraphGenerator.generate, step by step *)

\* the custom name lists a caller of generate supplies in the model
CustomNameChoices ==
    { <<>>,
      << <<>>, <<"Entrance", " ", "1">>, <<"entrance">> >>,
      << <<"Lobby">>, <<"x", "_", "1">>, <<"x">>, <<"X">> >> }

world_name == <<"W">>

InitGraph ==
    /\ pc = "generate"
    /\ room_count \in 2..MaxRoomCount
    /\ rooms = <<>>
    /\ GenIdle /\ WorldIdle /\ RunIdle /\ FilesIdle

\* a clamp that has lost its upper limit
ClampRoomCount_no_ceiling(n) == Max(3, n)

\* line 72: room_count = max(3, min(room_count, 100))
ClampRoomCount(n) == Max(3, Min(n, 100))

\* line 72 and line 92: clamp the count, start with an empty adjacency
GenerateStart ==
    /\ pc = "generate"
    /\ room_count' = ClampRoomCount(room_count)
    /\ adjacency' = [i \in 0..(room_count' - 1) |-> <<>>]
    /\ next_i' = 1
    /\ pc' = "tree"
    /\ UNCHANGED <<attempts, added, rerouted, names, ids, rooms>>
    /\ UNCHANGED <<worldVars, runVars, fileVars>>

\* lines 95-132: one iteration of the spanning-tree loop
SpanningTreeStep ==
    /\ pc = "tree"
    /\ next_i < room_count
    /\ LET candidates == 0..(next_i - 1)
           direct == ConnectOutcomes(adjacency, next_i, candidates)
       IN /\ adjacency' \in (IF direct # {} THEN direct
                             ELSE RerouteOutcomes(adjacency, next_i, candidates))
          /\ rerouted' = (rerouted \/ direct = {})
    /\ next_i' = next_i + 1
    /\ pc' = IF next_i' < room_count THEN "tree" ELSE "bonus"
    /\ UNCHANGED <<room_count, attempts, added, names, ids, rooms>>
    /\ UNCHANGED <<worldVars, runVars, fileVars>>

\* the loop condition without the cap on the attempts
BonusContinues_uncapped(nadded, nattempts) == nadded < bonus_count

\* line 138: the condition of the bonus-connection loop
BonusContinues(nadded, nattempts) ==
    nadded < bonus_count /\ nattempts < bonus_count * ATTEMPT_FACTOR

\* lines 138-151: one iteration of the bonus-connection loop; the loop's counters
\* are read by nothing after the loop and are cleared when it is left
BonusAttempt ==
    /\ pc = "bonus"
    /\ BonusContinues(added, attempts)
    /\ \E i, j \in Nodes :
          LET av == _get_available_direction(adjacency, i, j)
              skip == i = j \/ j \in {adjacency[i][k].n : k \in 1..Len(adjacency[i])} \/ av = {}
              nadded == IF skip THEN added ELSE added + 1
              goon == BonusContinues(nadded, attempts + 1)
          IN /\ IF skip THEN adjacency' = adjacency
                ELSE \E p \in av : adjacency' = AddEdge(adjacency, i, j, p)
             /\ added' = IF goon THEN nadded ELSE 0
             /\ attempts' = IF goon THEN attempts + 1 ELSE 0
             /\ pc' = IF goon THEN "bonus" ELSE "verify"
    /\ UNCHANGED <<room_count, next_i, rerouted, names, ids, rooms>>
    /\ UNCHANGED <<worldVars, runVars, fileVars>>

\* lines 153-177: breadth-first search, then force-connect
VerifyConnectivity ==
    /\ pc = "verify"
    /\ LET reachable == ReachFrom(adjacency, {0})
       IN adjacency' \in ForceConnect(adjacency, reachable, Nodes \ reachable)
    /\ pc' = "materialize"
    /\ UNCHANGED <<room_count, next_i, attempts, added, rerouted, names, ids, rooms>>
    /\ UNCHANGED <<worldVars, runVars, fileVars>>

\* lines 74-88 and 179-202: names and ids (read here for the first time), Room records
Materialize ==
    /\ pc = "materialize"
    /\ \E custom \in CustomNameChoices :
          /\ names' \in _generate_names(room_count, custom)
          /\ ids' = DedupIds([k \in 1..Len(names') |-> _safe_id(names'[k])])
          /\ rooms' = BuildRooms(adjacency, names', ids', world_name)
    /\ pc' = "generated"
    /\ UNCHANGED <<room_count, adjacency, next_i, attempts, added, rerouted>>
    /\ UNCHANGED <<worldVars, runVars, fileVars>>

NextGraph ==
    \/ GenerateStart
    \/ SpanningTreeStep
    \/ BonusAttempt
    \/ VerifyConnectivity
    \/ Materialize

SpecGraph == InitGraph /\ [][NextGraph]_vars

\* the requests whose runs are followed to their end
InitTermination == InitGraph /\ room_count <= MaxTerminationRooms

\* generate is one sequential call: it is never suspended for ever
SpecGraphFair == InitTermination /\ [][NextGraph]_vars /\ WF_vars(NextGraph)

----------------------------------------------------------------------------
(* generator.py: WorldGenerator._run_pipeline, stage by stage *)

\* largest requested room count of the pipeline runs
MaxPipelineRooms == 3

\* req.custom_room_names of the requests explored
RequestRoomNames ==
    { << <<>>, <<"Main", " ", "Hall">>, <<"Side", " ", "Room">> >>,
      << <<>>, <<"Seed">>, <<"Side", " ", "Room">> >>,
      << <<>>, <<"50", "%", " ", "Hall">>, <<"Side", " ", "Room">> >> }

\* req.physics_types of the requests explored
RequestPhysics == { <<>>, <<"growth">> }

\* req.character_names of the requests explored
RequestCharacters == { <<>>, << <<"Bob">> >> }

\* req.sd_host of the requests explored
RequestSdHosts == { <<"127.0.0.1">>, <<"host", "%">> }

\* theme_defaults.default_physics of the theme the model compiles with
default_physics == <<"lock_key">>

\* _random_room: random.choice(list(world.rooms.keys()))
_random_room(rms) == Range(RoomIdList(rms))

Init ==
    /\ pc = "generate"
    /\ room_count \in 1..MaxPipelineRooms
    /\ rooms = <<>>
    /\ GenIdle /\ WorldIdle /\ RunIdle /\ FilesIdle

\* stage 3, lines 151-156: generate returns world.rooms and its locals are gone
Stage3Rooms ==
    /\ pc = "materialize"
    /\ \E custom \in RequestRoomNames :
          \E nms \in _generate_names(room_count, custom) :
             rooms' = BuildRooms(adjacency, nms,
                                 DedupIds([k \in 1..Len(nms) |-> _safe_id(nms[k])]),
                                 world_name)
    /\ adjacency' = <<>> /\ next_i' = 0 /\ rerouted' = FALSE
    /\ pc' = "stage4"
    /\ UNCHANGED <<room_count, attempts, added, names, ids>>
    /\ UNCHANGED <<worldVars, runVars, fileVars>>

\* stage 4, line 159, and line 162: starter objects, then the list of tags to apply
Stage4StarterObjects ==
    /\ pc = "stage4"
    /\ objects' = _build_starter_objects(rooms)
    /\ \E physics_types \in RequestPhysics :
          physics_to_apply' = IF physics_types # <<>> THEN physics_types ELSE default_physics
    /\ pc' = "stage5"
    /\ UNCHANGED <<rooms, genVars, transformations, sprites, physics_applied,
                   respawn_location, sd_host, validation_errors, validation_warnings,
                   result, themeVars, llmVars, fileVars>>

\* stage 5, lines 163-165: one iteration of the injection loop
Stage5Inject ==
    /\ pc = "stage5"
    /\ physics_to_apply # <<>>
    /\ \E r1, r2 \in _random_room(rooms) :
          LET package == get_package(Head(physics_to_apply), rooms, r1, r2, r1)
          IN /\ rooms' = TagRoom(package, rooms)
             /\ objects' = inject_objects(package, objects)
             /\ transformations' = inject_transformations(package, transformations)
             /\ physics_applied' = inject_applied(package, physics_applied)
    /\ physics_to_apply' = Tail(physics_to_apply)
    /\ UNCHANGED <<pc, genVars, sprites, respawn_location, sd_host,
                   validation_errors, validation_warnings, result, themeVars, llmVars, fileVars>>

\* stages 6-8, lines 168-187: sprites, combat config, SD config
Stage6to8 ==
    /\ pc = "stage5"
    /\ physics_to_apply = <<>>
    /\ \E character_names \in RequestCharacters :
          sprites' \in (IF character_names # <<>>
                        THEN generate_sprites(character_names, rooms, objects)
                        ELSE {sprites})
    /\ respawn_location' = start_room(rooms)
    /\ sd_host' \in RequestSdHosts
    /\ pc' = "stage9"
    /\ UNCHANGED <<rooms, genVars, objects, transformations, physics_applied, runVars, fileVars>>

\* stage 9, lines 190-199: validate; an invalid world is returned unwritten
Stage9Validate ==
    /\ pc = "stage9"
    /\ validation_errors' =
          validate(rooms, objects, sprites, transformations, respawn_location, sd_host)
    /\ validation_warnings' = validate_warnings(sprites)
    /\ log' = Append(log, "validate")
    /\ IF ~is_valid(validation_errors')
       THEN /\ result' = [success |-> FALSE, world |-> TRUE,
                          validation_errors |-> validation_errors',
                          validation_warnings |-> validation_warnings',
                          roundtrip_errors |-> {}, written_files |-> {}]
            /\ pc' = "returned"
       ELSE /\ result' = result
            /\ pc' = "stage10"
    /\ UNCHANGED <<rooms, genVars, worldVars, physics_to_apply, themeVars, llmVars,
                   files, repaired, obj_repaired, spr_repaired, final_errors>>

\* stage 10, line 202: write the six files
Stage10Write ==
    /\ pc = "stage10"
    /\ files' = write_all(rooms, objects, sprites, transformations,
                          respawn_location, sd_host, world_name)
    /\ log' = Append(log, "write")
    /\ pc' = "stage11"
    /\ UNCHANGED <<rooms, genVars, worldVars, runVars,
                   repaired, obj_repaired, spr_repaired, final_errors>>

\* stage 11, lines 205-217: verify what was written and return
Stage11Verify ==
    /\ pc = "stage11"
    /\ LET rt_errors == verify(files)
       IN /\ result' = [success |-> is_valid(rt_errors), world |-> TRUE,
                        validation_errors |-> validation_errors \cup rt_errors,
                        validation_warnings |-> validation_warnings \cup verify_warnings(files),
                        roundtrip_errors |-> rt_errors,
                        written_files |-> {"rooms", "objects", "sprites", "transformations",
                                           "combat", "sd"}]
          /\ log' = Append(log, IF is_valid(rt_errors) THEN "verify_ok" ELSE "verify_failed")
    /\ pc' = "returned"
    /\ UNCHANGED <<rooms, genVars, worldVars, physics_to_apply, validation_errors,
                   validation_warnings, themeVars, llmVars, files, repaired, obj_repaired,
                   spr_repaired, final_errors>>

\* the stages of _run_pipeline, the steps of generate among them
PipelineStages ==
    {"generate", "tree", "bonus", "verify", "materialize",
     "stage4", "stage5", "stage9", "stage10", "stage11"}

\* a handler that hands back the World built so far
pipeline_error_result_with_world ==
    [success |-> FALSE, world |-> TRUE,
     validation_errors |-> {<<"pipeline_error">>}, validation_warnings |-> {},
     roundtrip_errors |-> {}, written_files |-> {}]

\* generate, lines 126-133: the result of the except branch, its one error entry being
\* "Pipeline error: ..." and every other field the default
pipeline_error_result ==
    [success |-> FALSE, world |-> FALSE,
     validation_errors |-> {<<"pipeline_error">>}, validation_warnings |-> {},
     roundtrip_errors |-> {}, written_files |-> {}]

\* generate, lines 120-133: an exception raised at a stage leaves _run_pipeline, whose
\* locals (the World among them) are gone, and the except branch returns
PipelineFault ==
    /\ pc \in PipelineStages
    /\ result' = pipeline_error_result
    /\ rooms' = <<>>
    /\ adjacency' = <<>> /\ next_i' = 0 /\ attempts' = 0 /\ added' = 0
    /\ rerouted' = FALSE /\ names' = <<>> /\ ids' = <<>>
    /\ objects' = EmptyDict /\ transformations' = EmptyDict /\ sprites' = EmptyDict
    /\ physics_applied' = <<>> /\ respawn_location' = EMPTY /\ sd_host' = EMPTY
    /\ physics_to_apply' = <<>> /\ validation_errors' = {} /\ validation_warnings' = {}
    /\ log' = Append(log, "fault")
    /\ pc' = "returned"
    /\ UNCHANGED <<room_count, themeVars, llmVars, files, repaired, obj_repaired, spr_repaired,
                   final_errors>>

----------------------------------------------------------------------------
(* create_world.py: main, after gen.generate(request) *)

\* the lines the language model returns for the character and the object it invents:
\* a name and a room id (a room id that is no section of rooms.ini would be replaced
\* by random.choice(room_ids))
LlmLines ==
    { [name |-> <<"Ranger">>, room |-> <<"entrance">>],
      [name |-> <<"Mr", " ", "100", "%">>, room |-> <<"entrance">>] }

\* lines 256-260: a failed generation ends the program
MainExitFailure ==
    /\ pc = "returned"
    /\ ~result.success
    /\ pc' = "exit1"
    /\ UNCHANGED <<rooms, genVars, worldVars, runVars, fileVars>>

\* lines 268-274: --no-enrich ends the program after the structure is written
MainNoEnrich ==
    /\ pc = "returned"
    /\ result.success
    /\ pc' = "exit0"
    /\ UNCHANGED <<rooms, genVars, worldVars, runVars, fileVars>>

\* _write_ini(items, path, world_name, label) with an empty list of items: the header
\* and no section
WrittenEmpty(label) == [header |-> Header(label, world_name), sections |-> EmptyDict]

\* enrich_all when _step1_object_names and _step1_sprite_names return no name and
\* generate_raw no transformation: the three empty lists are written all the same
enrich_unnamed(f) ==
    [f EXCEPT !.objects = WrittenEmpty("Objects"),
              !.sprites = WrittenEmpty("Sprites"),
              !.transformations = WrittenEmpty("Transformation")]

\* STEP 4, enrich_all: objects.ini, sprites.ini and transformations.ini are rewritten
\* from the language model's lines; a location or spawn room is one of the room ids,
\* descriptions are escaped, names are written as they come; a language model that
\* returns nothing leaves the lists empty
Enrich ==
    /\ pc = "returned"
    /\ result.success
    /\ \/ /\ files' = enrich_unnamed(files)
          /\ log' = Append(log, "enrich_unnamed")
       \/ /\ \E line \in LlmLines :
              \E location \in (IF line.room \in SectionIds(files.rooms) THEN {line.room}
                               ELSE SectionIds(files.rooms)) :
                files' = [files EXCEPT
                   !.objects = [header |-> Header("Objects", world_name),
                                sections |-> Put(EmptyDict,
                                   [id |-> <<"relic">>, location |-> location,
                                    texts |-> {<<"relic">>}]) ],
                   !.sprites = [header |-> Header("Sprites", world_name),
                                sections |-> Put(EmptyDict,
                                   [id |-> <<"npc">>, spawn_rooms |-> location,
                                    texts |-> {line.name, _escape_percent(line.name \o <<".">>)}]) ],
                   !.transformations = [header |-> Header("Transformation", world_name),
                                sections |-> Put(EmptyDict,
                                   [id |-> Id2("use", "relic"), object_id |-> <<"relic">>,
                                    new_object_id |-> EMPTY, requires_object |-> EMPTY,
                                    requires_object_2 |-> EMPTY, texts |-> {Msg}]) ]]
          /\ log' = Append(log, "enrich")
    /\ pc' = "step5"
    /\ UNCHANGED <<rooms, genVars, worldVars, runVars,
                   repaired, obj_repaired, spr_repaired, final_errors>>

\* lines 359-364: the verification of STEP 5
FinalVerify ==
    /\ pc = "step5"
    /\ final_errors' = verify(files)
    /\ log' = Append(log, IF is_valid(final_errors') THEN "verify_ok" ELSE "verify_failed")
    /\ pc' = IF is_valid(final_errors') THEN "done" ELSE "repair"
    /\ UNCHANGED <<rooms, genVars, worldVars, runVars, files,
                   repaired, obj_repaired, spr_repaired>>

\* lines 367-443: the repair of exits, object locations and spawn lists; with no room
\* section, list(valid_rooms_objs)[0] raises and the program ends there
AutoRepair ==
    /\ pc = "repair"
    /\ LET valid_rooms == SectionIds(files.rooms)
           n_exits == CountBroken(files.rooms, valid_rooms)
           rooms_file == IF n_exits > 0
                         THEN [header |-> Header("Room", world_name),
                               sections |-> RepairExits(files.rooms, valid_rooms)]
                         ELSE files.rooms
           moved == {o \in DOMAIN files.objects.sections :
                        NeedsRelocation(files.objects.sections[o], valid_rooms)}
           fixed == {x \in DOMAIN files.sprites.sections :
                        NeedsSpawnFix(files.sprites.sections[x], valid_rooms)}
       IN IF valid_rooms = {} /\ (moved # {} \/ fixed # {})
          THEN /\ files' = [files EXCEPT !.rooms = rooms_file]
               /\ repaired' = n_exits /\ obj_repaired' = 0 /\ spr_repaired' = 0
               /\ pc' = "crashed"
          ELSE /\ \E fallback \in (IF valid_rooms = {} THEN {EMPTY} ELSE Fallback(valid_rooms)) :
                     files' = [files EXCEPT
                        !.rooms = rooms_file,
                        !.objects = IF moved = {} THEN @
                                    ELSE [header |-> Header("Object", world_name),
                                          sections |-> RepairObjects(@, valid_rooms, fallback)],
                        !.sprites = IF fixed = {} THEN @
                                    ELSE [header |-> Header("Sprite", world_name),
                                          sections |-> RepairSprites(@, valid_rooms, fallback)]]
               /\ repaired' = n_exits
               /\ obj_repaired' = Cardinality(moved)
               /\ spr_repaired' = Cardinality(fixed)
               /\ pc' = "recheck"
    /\ log' = Append(log, "repair")
    /\ UNCHANGED <<rooms, genVars, worldVars, runVars, final_errors>>

\* lines 446-452: the one re-check after the repair
FinalRecheck ==
    /\ pc = "recheck"
    /\ final_errors' = verify(files)
    /\ log' = Append(log, IF is_valid(final_errors') THEN "verify_ok" ELSE "verify_failed")
    /\ pc' = "done"
    /\ UNCHANGED <<rooms, genVars, worldVars, runVars, files,
                   repaired, obj_repaired, spr_repaired>>

Next ==
    \/ GenerateStart
    \/ SpanningTreeStep
    \/ BonusAttempt
    \/ VerifyConnectivity
    \/ Stage3Rooms
    \/ Stage4StarterObjects
    \/ Stage5Inject
    \/ Stage6to8
    \/ Stage9Validate
    \/ Stage10Write
    \/ Stage11Verify
    \/ PipelineFault
    \/ MainExitFailure
    \/ MainNoEnrich
    \/ Enrich
    \/ FinalVerify
    \/ AutoRepair
    \/ FinalRecheck

Spec == Init /\ [][Next]_vars

----------------------------------------------------------------------------
(* The repair pass on artifact sets taken from a bounded universe *)

\* the room sections of the artifact sets: none, two with an entrance, two without
RepairRoomLists ==
    { <<>>, << <<"entrance">>, <<"hall">> >>, << <<"hall">>, <<"cellar">> >> }

\* the exits that can point at the room that does not exist: <<room index, direction>>
GhostExits == { <<1, "east">>, <<2, "northeast">>, <<2, "up">> }

GHOST == <<"ghost">>

\* rooms.ini: the two rooms joined north-south, plus the chosen dangling exits
ArtifactRooms(room_list, ghosts) ==
    [k \in 1..Len(room_list) |->
        [id |-> room_list[k],
         exits |-> [d \in {IF k = 1 THEN "north" ELSE "south"}
                            \cup {g[2] : g \in {h \in ghosts : h[1] = k}} |->
                        IF d \in {"north", "south"} THEN room_list[3 - k] ELSE GHOST],
         texts |-> {<<"A", " ", "room">>}]]

\* where the coin of objects.ini lies: nowhere, in the chest, in a missing room, in a room
CoinLocations(room_list) == {NONE, <<"chest">>, GHOST} \cup Range(room_list)

\* the spawn_rooms value of the one character of sprites.ini
SpawnTexts(room_list) ==
    IF room_list = <<>> THEN {EMPTY, GHOST}
    ELSE { room_list[2],
           room_list[2] \o <<",", " ">> \o GHOST,
           GHOST,
           <<" ">> \o room_list[2] \o <<" ", ",">> \o room_list[1],
           EMPTY }

ArtifactSet(room_list, ghosts, coin_location, spawn_text) ==
    [exists |-> TRUE,
     rooms |-> [header |-> Header("Room", world_name),
                sections |-> ArtifactRooms(room_list, ghosts)],
     objects |-> [header |-> Header("Object", world_name),
                  sections |-> PutAll(EmptyDict,
                     << [id |-> <<"chest">>,
                         location |-> IF room_list = <<>> THEN NONE ELSE room_list[2],
                         texts |-> {<<"chest">>}],
                        [id |-> <<"coin">>, location |-> coin_location,
                         texts |-> {<<"coin">>}] >>)],
     sprites |-> [header |-> Header("Sprite", world_name),
                  sections |-> Put(EmptyDict,
                     [id |-> <<"bob">>, spawn_rooms |-> spawn_text, texts |-> {<<"Bob">>}])],
     transformations |-> [header |-> Header("Transformation", world_name),
                  sections |-> Put(EmptyDict,
                     [id |-> Id2("use", "coin"), object_id |-> <<"coin">>,
                      new_object_id |-> EMPTY, requires_object |-> EMPTY,
                      requires_object_2 |-> EMPTY, texts |-> {Msg}])],
     combat |-> [header |-> Header("Combat", world_name), texts |-> {EMPTY}],
     sd |-> [header |-> Header("SD", world_name),
             sections |-> [sec \in {<<"SD", "1">>} |-> {<<"127.0.0.1">>}]]]

ArtifactSets ==
    {ArtifactSet(q[1], q[2], q[3], q[4]) : q \in
        {q \in RepairRoomLists \X (SUBSET GhostExits) \X CoinLocations(<< <<"entrance">>, <<"hall">>, <<"cellar">> >>)
                \X (SpawnTexts(<<>>) \cup SpawnTexts(<< <<"entrance">>, <<"hall">> >>)
                        \cup SpawnTexts(<< <<"hall">>, <<"cellar">> >>)) :
            /\ q[3] \in CoinLocations(q[1])
            /\ q[4] \in SpawnTexts(q[1])
            /\ (q[1] = <<>> => q[2] = {})}}

InitRepair ==
    /\ pc = "step5"
    /\ files \in ArtifactSets
    /\ rooms = <<>> /\ room_count = 0
    /\ GenIdle /\ WorldIdle /\ RunIdle
    /\ log = <<>> /\ repaired = 0 /\ obj_repaired = 0 /\ spr_repaired = 0 /\ final_errors = {}

NextRepair ==
    \/ FinalVerify
    \/ AutoRepair
    \/ FinalRecheck

SpecRepair == InitRepair /\ [][NextRepair]_vars

----------------------------------------------------------------------------
(* Packages and sprites on Worlds taken from a bounded set *)

\* most packages injected into one World
MaxPackages == 2

\* rooms 0..n-1 joined in a line: every new room is attached to the one before it with
\* the first direction pair, its own exit north and the other's exit south
ChainAdjacency(n) ==
    [i \in 0..(n - 1) |->
        (IF i > 0 THEN <<[n |-> i - 1, d |-> "north", r |-> "south"]>> ELSE <<>>)
        \o (IF i < n - 1 THEN <<[n |-> i + 1, d |-> "south", r |-> "north"]>> ELSE <<>>)]

\* the World whose rooms carry the given names
ChainWorld(nms) ==
    BuildRooms(ChainAdjacency(Len(nms)), nms,
               DedupIds([k \in 1..Len(nms) |-> _safe_id(nms[k])]), world_name)

\* Worlds of one, two and three rooms; the last has a room a caller named "Seed"
SmallWorlds ==
    { ChainWorld(<< <<"Entrance">> >>),
      ChainWorld(<< <<"Entrance">>, <<"Main", " ", "Hall">> >>),
      ChainWorld(<< <<"Entrance">>, <<"Seed">>, <<"Side", " ", "Room">> >>) }

InitPhysics ==
    /\ pc = "stage5"
    /\ rooms \in SmallWorlds
    /\ room_count = Len(rooms)
    /\ GenIdle
    /\ objects = _build_starter_objects(rooms)
    /\ transformations = EmptyDict /\ sprites = EmptyDict
    /\ physics_applied = <<>> /\ respawn_location = start_room(rooms)
    /\ sd_host = <<"127.0.0.1">>
    /\ RunIdle /\ FilesIdle

\* get_package(tag).inject(world) for a tag that has not been applied yet
InjectPackage ==
    /\ pc = "stage5"
    /\ Len(physics_applied) < MaxPackages
    /\ \E tag \in PhysicsType \ Range(physics_applied) :
          \E r1, r2 \in _random_room(rooms) :
             LET package == get_package(tag, rooms, r1, r2, r1)
             IN /\ rooms' = TagRoom(package, rooms)
                /\ objects' = inject_objects(package, objects)
                /\ transformations' = inject_transformations(package, transformations)
                /\ physics_applied' = inject_applied(package, physics_applied)
    /\ UNCHANGED <<pc, genVars, sprites, respawn_location, sd_host, runVars, fileVars>>

NextPhysics == InjectPackage

SpecPhysics == InitPhysics /\ [][NextPhysics]_vars

\* the name lists handed to generate_sprites: none, one, three, and one with a blank
\* name and a repeated name
SpriteNameLists ==
    { <<>>,
      << <<"Bob">> >>,
      << <<"Bob">>, <<"Guard">>, <<"King">> >>,
      << <<"Bob">>, <<" ">>, <<"Bob">> >> }

InitSprites ==
    /\ pc = "stage6"
    /\ rooms \in SmallWorlds \cup {<<>>}
    /\ room_count = Len(rooms)
    /\ GenIdle
    /\ objects = _build_starter_objects(rooms)
    /\ transformations = EmptyDict /\ sprites = EmptyDict
    /\ physics_applied = <<>> /\ respawn_location = EMPTY /\ sd_host = EMPTY
    /\ RunIdle /\ FilesIdle

\* world.sprites = generate_sprites(names, theme, world)
SpriteGeneration ==
    /\ pc = "stage6"
    /\ \E character_names \in SpriteNameLists :
          sprites' \in generate_sprites(character_names, rooms, objects)
    /\ pc' = "stage7"
    /\ UNCHANGED <<rooms, genVars, objects, transformations, physics_applied,
                   respawn_location, sd_host, runVars, fileVars>>

NextSprites == SpriteGeneration

SpecSprites == InitSprites /\ [][NextSprites]_vars

----------------------------------------------------------------------------
(* generate as one call, for every requested count *)

\* largest requested room count of the calls taken as a whole
MaxRequest == 102

\* the orders random.shuffle leaves the prefixes in that the whole calls explore
ShuffleOrders(prefixes) ==
    {prefixes, [k \in 1..Len(prefixes) |-> prefixes[Len(prefixes) + 1 - k]]}

InitCount ==
    /\ pc = "generate"
    /\ room_count \in (-2)..MaxRequest
    /\ rooms = <<>>
    /\ GenIdle /\ WorldIdle /\ RunIdle /\ FilesIdle

\* generate(room_count, theme, world_name) with no custom names, from call to return, for
\* the outcomes in which every room is attached to the one before it and no bonus pair
\* is drawn that can be joined; room_count is the caller's argument, which the call
\* leaves as it was
GenerateCall ==
    /\ pc = "generate"
    /\ LET count == ClampRoomCount(room_count)
       IN \E order \in ShuffleOrders(Padded(suggested_room_prefixes, count)) :
             /\ names' = DedupNames(Overlay(SubSeq(order, 1, count), <<>>, count))
             /\ ids' = DedupIds([k \in 1..count |-> _safe_id(names'[k])])
             /\ rooms' = BuildRooms(ChainAdjacency(count), names', ids', world_name)
    /\ pc' = "generated"
    /\ UNCHANGED <<room_count, adjacency, next_i, attempts, added, rerouted>>
    /\ UNCHANGED <<worldVars, runVars, fileVars>>

NextCount == GenerateCall

SpecCount == InitCount /\ [][NextCount]_vars

----------------------------------------------------------------------------
(* The validator, the writer and the verifier on Worlds of a bounded universe *)

\* the three rooms every World of the universe starts from
RecordBase ==
    ChainWorld(<< <<"Entrance">>, <<"Main", " ", "Hall">>, <<"Side", " ", "Room">> >>)

\* world.rooms: sound, with an exit to no room, with two start rooms, with none, and
\* with a room no exit leads to
RecordRooms ==
    { RecordBase,
      [RecordBase EXCEPT ![3].exits =
          [d \in {"north", "up"} |-> IF d = "up" THEN GHOST ELSE RecordBase[3].exits[d]]],
      [RecordBase EXCEPT ![2].is_start = TRUE],
      [RecordBase EXCEPT ![1].is_start = FALSE],
      [RecordBase EXCEPT ![2].exits = [d \in {"north"} |-> RecordBase[1].id]] }

\* world.objects: the starter objects alone, with a coin in no room, with a coin inside
\* an object that is no container, and with a coin inside a chest
RecordObjects ==
    LET starters == _build_starter_objects(RecordBase)
        Coin(loc) == GameObject(<<"coin">>, <<"coin">>, loc, FALSE, FALSE)
        chest == [GameObject(<<"chest">>, <<"chest">>, RecordBase[1].id, FALSE, FALSE)
                     EXCEPT !.is_container = TRUE]
    IN { starters,
         Put(starters, Coin(GHOST)),
         Put(starters, Coin(Id2("starter", "key"))),
         PutAll(starters, <<chest, Coin(<<"chest">>)>>) }

\* world.sprites: none, a sound one, one with no spawn room, one spawning in no room,
\* one dropping no object
RecordSprites ==
    LET Bob(spawn, loot) == Sprite(<<"bob">>, <<"Bob">>, "neutral", spawn, loot)
    IN { EmptyDict,
         Put(EmptyDict, Bob(<<RecordBase[1].id>>, EMPTY)),
         Put(EmptyDict, Bob(<<>>, EMPTY)),
         Put(EmptyDict, Bob(<<GHOST>>, EMPTY)),
         Put(EmptyDict, Bob(<<RecordBase[1].id>>, <<"gem">>)) }

\* world.transformations: none, a sound one, and one per reference that resolves to nothing
RecordTransformations ==
    LET key == Id2("starter", "key")
        Use(oid, newobj, req, newloc) ==
            Transformation(Id2("use", "key"), oid, newobj, req, newloc, Msg)
    IN { EmptyDict,
         Put(EmptyDict, Use(key, EMPTY, EMPTY, RecordBase[2].id)),
         Put(EmptyDict, Use(<<"gem">>, EMPTY, EMPTY, EMPTY)),
         Put(EmptyDict, Use(key, <<"gem">>, EMPTY, EMPTY)),
         Put(EmptyDict, Use(key, EMPTY, <<"gem">>, EMPTY)),
         Put(EmptyDict, Use(key, EMPTY, EMPTY, GHOST)) }

InitRecords ==
    /\ pc = "stage9"
    /\ rooms \in RecordRooms
    /\ room_count = Len(rooms)
    /\ GenIdle
    /\ objects \in RecordObjects
    /\ sprites \in RecordSprites
    /\ transformations \in RecordTransformations
    /\ physics_applied = <<>>
    /\ respawn_location \in {RecordBase[1].id, GHOST}
    /\ sd_host = <<"127.0.0.1">>
    /\ RunIdle /\ FilesIdle

\* validate(world), write_all(world, ...) and verify(output_dir, ...) called one after
\* the other on the same World, whatever the validator says
CompareBatteries ==
    /\ pc = "stage9"
    /\ validation_errors' =
          validate(rooms, objects, sprites, transformations, respawn_location, sd_host)
    /\ validation_warnings' = validate_warnings(sprites)
    /\ files' = write_all(rooms, objects, sprites, transformations,
                          respawn_location, sd_host, world_name)
    /\ final_errors' = verify(files')
    /\ log' = log \o <<"validate", "write",
                       IF is_valid(final_errors') THEN "verify_ok" ELSE "verify_failed">>
    /\ pc' = "compared"
    /\ UNCHANGED <<rooms, genVars, worldVars, physics_to_apply, result, themeVars, llmVars,
                   repaired, obj_repaired, spr_repaired>>

NextRecords ==
    \/ Stage9Validate
    \/ Stage10Write
    \/ Stage11Verify
    \/ CompareBatteries

SpecRecords == InitRecords /\ [][NextRecords]_vars

----------------------------------------------------------------------------
(* theme_engine.py: ThemeEngine.classify *)

\* the members of the WorldTheme enumeration, in the order they are declared
WorldTheme ==
    <<"scifi", "military", "fantasy", "domestic", "horror", "adventure", "sitcom",
      "crime_spy", "disco", "nightclub", "original">>

\* the classification table: a keyword is the text kw, len(kw) characters long
THEME_KEYWORDS ==
    <<
      [theme |-> "scifi", keywords |->
       << [kw |-> <<"area", " ", "51">>, len |-> 7],
          [kw |-> <<"alien">>, len |-> 5],
          [kw |-> <<"space">>, len |-> 5],
          [kw |-> <<"star", " ", "trek">>, len |-> 9],
          [kw |-> <<"galaxy">>, len |-> 6],
          [kw |-> <<"mars">>, len |-> 4],
          [kw |-> <<"ufo">>, len |-> 3],
          [kw |-> <<"nasa">>, len |-> 4],
          [kw |-> <<"robot">>, len |-> 5],
          [kw |-> <<"android">>, len |-> 7],
          [kw |-> <<"scifi">>, len |-> 5],
          [kw |-> <<"sci", "-", "fi">>, len |-> 6],
          [kw |-> <<"stargate">>, len |-> 8],
          [kw |-> <<"battlestar">>, len |-> 10],
          [kw |-> <<"moon">>, len |-> 4],
          [kw |-> <<"orbit">>, len |-> 5],
          [kw |-> <<"cosmic">>, len |-> 6],
          [kw |-> <<"nebula">>, len |-> 6],
          [kw |-> <<"federation">>, len |-> 10],
          [kw |-> <<"empire">>, len |-> 6] >>],
      [theme |-> "military", keywords |->
       << [kw |-> <<"mash">>, len |-> 4],
          [kw |-> <<"hogan">>, len |-> 5],
          [kw |-> <<"stalag">>, len |-> 6],
          [kw |-> <<"army">>, len |-> 4],
          [kw |-> <<"combat">>, len |-> 6],
          [kw |-> <<"war">>, len |-> 3],
          [kw |-> <<"military">>, len |-> 8],
          [kw |-> <<"soldier">>, len |-> 7],
          [kw |-> <<"battalion">>, len |-> 9],
          [kw |-> <<"platoon">>, len |-> 7],
          [kw |-> <<"fort">>, len |-> 4],
          [kw |-> <<"barracks">>, len |-> 8],
          [kw |-> <<"mission", " ", "impossible">>, len |-> 18],
          [kw |-> <<"a", "-", "team">>, len |-> 6],
          [kw |-> <<"seal">>, len |-> 4],
          [kw |-> <<"ranger">>, len |-> 6],
          [kw |-> <<"special", " ", "ops">>, len |-> 11],
          [kw |-> <<"frontline">>, len |-> 9],
          [kw |-> <<"vietnam">>, len |-> 7],
          [kw |-> <<"korean">>, len |-> 6],
          [kw |-> <<"wwii">>, len |-> 4],
          [kw |-> <<"ww2">>, len |-> 3],
          [kw |-> <<"normandy">>, len |-> 8],
          [kw |-> <<"patrol">>, len |-> 6] >>],
      [theme |-> "fantasy", keywords |->
       << [kw |-> <<"hogwarts">>, len |-> 8],
          [kw |-> <<"wizard">>, len |-> 6],
          [kw |-> <<"dragon">>, len |-> 6],
          [kw |-> <<"medieval">>, len |-> 8],
          [kw |-> <<"castle">>, len |-> 6],
          [kw |-> <<"zork">>, len |-> 4],
          [kw |-> <<"dungeon">>, len |-> 7],
          [kw |-> <<"magic">>, len |-> 5],
          [kw |-> <<"elf">>, len |-> 3],
          [kw |-> <<"dwarf">>, len |-> 5],
          [kw |-> <<"sword">>, len |-> 5],
          [kw |-> <<"quest">>, len |-> 5],
          [kw |-> <<"realm">>, len |-> 5],
          [kw |-> <<"kingdom">>, len |-> 7],
          [kw |-> <<"sorcerer">>, len |-> 8],
          [kw |-> <<"witch">>, len |-> 5],
          [kw |-> <<"enchanted">>, len |-> 9],
          [kw |-> <<"fantasy">>, len |-> 7],
          [kw |-> <<"rpg">>, len |-> 3],
          [kw |-> <<"adventure">>, len |-> 9],
          [kw |-> <<"hero">>, len |-> 4] >>],
      [theme |-> "domestic", keywords |->
       << [kw |-> <<"barbie">>, len |-> 6],
          [kw |-> <<"full", " ", "house">>, len |-> 10],
          [kw |-> <<"brady">>, len |-> 5],
          [kw |-> <<"family">>, len |-> 6],
          [kw |-> <<"home">>, len |-> 4],
          [kw |-> <<"house">>, len |-> 5],
          [kw |-> <<"suburb">>, len |-> 6],
          [kw |-> <<"kitchen">>, len |-> 7],
          [kw |-> <<"cozy">>, len |-> 4],
          [kw |-> <<"domestic">>, len |-> 8],
          [kw |-> <<"sitcom">>, len |-> 6],
          [kw |-> <<"neighborhood">>, len |-> 12],
          [kw |-> <<"school">>, len |-> 6],
          [kw |-> <<"mall">>, len |-> 4],
          [kw |-> <<"shop">>, len |-> 4],
          [kw |-> <<"bakery">>, len |-> 6],
          [kw |-> <<"cafe">>, len |-> 4],
          [kw |-> <<"dollhouse">>, len |-> 9],
          [kw |-> <<"dream", " ", "house">>, len |-> 11] >>],
      [theme |-> "horror", keywords |->
       << [kw |-> <<"haunted">>, len |-> 7],
          [kw |-> <<"halloween">>, len |-> 9],
          [kw |-> <<"dracula">>, len |-> 7],
          [kw |-> <<"vampire">>, len |-> 7],
          [kw |-> <<"zombie">>, len |-> 6],
          [kw |-> <<"horror">>, len |-> 6],
          [kw |-> <<"ghost">>, len |-> 5],
          [kw |-> <<"dark">>, len |-> 4],
          [kw |-> <<"mansion">>, len |-> 7],
          [kw |-> <<"cemetery">>, len |-> 8],
          [kw |-> <<"asylum">>, len |-> 6],
          [kw |-> <<"cursed">>, len |-> 6],
          [kw |-> <<"forbidden">>, len |-> 9],
          [kw |-> <<"cthulhu">>, len |-> 7],
          [kw |-> <<"evil">>, len |-> 4],
          [kw |-> <<"nightmare">>, len |-> 9],
          [kw |-> <<"terror">>, len |-> 6],
          [kw |-> <<"shadow">>, len |-> 6],
          [kw |-> <<"silent", " ", "hill">>, len |-> 11] >>],
      [theme |-> "adventure", keywords |->
       << [kw |-> <<"indiana", " ", "jones">>, len |-> 13],
          [kw |-> <<"pirate">>, len |-> 6],
          [kw |-> <<"jungle">>, len |-> 6],
          [kw |-> <<"explorer">>, len |-> 8],
          [kw |-> <<"treasure">>, len |-> 8],
          [kw |-> <<"expedition">>, len |-> 10],
          [kw |-> <<"safari">>, len |-> 6],
          [kw |-> <<"island">>, len |-> 6],
          [kw |-> <<"temple">>, len |-> 6],
          [kw |-> <<"ruins">>, len |-> 5],
          [kw |-> <<"artifact">>, len |-> 8],
          [kw |-> <<"archaeology">>, len |-> 11],
          [kw |-> <<"map">>, len |-> 3],
          [kw |-> <<"tomb">>, len |-> 4],
          [kw |-> <<"raiders">>, len |-> 7],
          [kw |-> <<"national", " ", "treasure">>, len |-> 17],
          [kw |-> <<"uncharted">>, len |-> 9] >>],
      [theme |-> "sitcom", keywords |->
       << [kw |-> <<"bewitched">>, len |-> 9],
          [kw |-> <<"i", " ", "love", " ", "lucy">>, len |-> 11],
          [kw |-> <<"gilligan">>, len |-> 8],
          [kw |-> <<"cheers">>, len |-> 6],
          [kw |-> <<"seinfeld">>, len |-> 8],
          [kw |-> <<"friends">>, len |-> 7],
          [kw |-> <<"office">>, len |-> 6],
          [kw |-> <<"parks">>, len |-> 5],
          [kw |-> <<"frasier">>, len |-> 7],
          [kw |-> <<"taxi">>, len |-> 4],
          [kw |-> <<"mork">>, len |-> 4],
          [kw |-> <<"three", " ", "company">>, len |-> 13],
          [kw |-> <<"laverne">>, len |-> 7],
          [kw |-> <<"happy", " ", "days">>, len |-> 10],
          [kw |-> <<"fonzie">>, len |-> 6],
          [kw |-> <<"sam", " ", "malone">>, len |-> 10],
          [kw |-> <<"norm">>, len |-> 4],
          [kw |-> <<"cliff">>, len |-> 5] >>],
      [theme |-> "disco", keywords |->
       << [kw |-> <<"studio", " ", "54">>, len |-> 9],
          [kw |-> <<"disco">>, len |-> 5],
          [kw |-> <<"dance", " ", "club">>, len |-> 10],
          [kw |-> <<"nightclub">>, len |-> 9],
          [kw |-> <<"dance", " ", "floor">>, len |-> 11],
          [kw |-> <<"saturday", " ", "night", " ", "fever">>, len |-> 20],
          [kw |-> <<"dance", " ", "hall">>, len |-> 10],
          [kw |-> <<"roller", " ", "rink">>, len |-> 11],
          [kw |-> <<"boogie">>, len |-> 6],
          [kw |-> <<"dj">>, len |-> 2],
          [kw |-> <<"turntable">>, len |-> 9],
          [kw |-> <<"rave">>, len |-> 4],
          [kw |-> <<"club", " ", "night">>, len |-> 10],
          [kw |-> <<"discotheque">>, len |-> 11] >>],
      [theme |-> "nightclub", keywords |->
       << [kw |-> <<"bar">>, len |-> 3],
          [kw |-> <<"nightclub">>, len |-> 9],
          [kw |-> <<"lounge">>, len |-> 6],
          [kw |-> <<"speakeasy">>, len |-> 9],
          [kw |-> <<"jazz", " ", "club">>, len |-> 9],
          [kw |-> <<"cocktail">>, len |-> 8],
          [kw |-> <<"vip", " ", "lounge">>, len |-> 10],
          [kw |-> <<"rooftop", " ", "bar">>, len |-> 11],
          [kw |-> <<"cabaret">>, len |-> 7],
          [kw |-> <<"burlesque">>, len |-> 9],
          [kw |-> <<"velvet", " ", "rope">>, len |-> 11],
          [kw |-> <<"bouncer">>, len |-> 7],
          [kw |-> <<"bartender">>, len |-> 9] >>],
      [theme |-> "crime_spy", keywords |->
       << [kw |-> <<"james", " ", "bond">>, len |-> 10],
          [kw |-> <<"spy">>, len |-> 3],
          [kw |-> <<"agent">>, len |-> 5],
          [kw |-> <<"cia">>, len |-> 3],
          [kw |-> <<"mi6">>, len |-> 3],
          [kw |-> <<"fbi">>, len |-> 3],
          [kw |-> <<"detective">>, len |-> 9],
          [kw |-> <<"noir">>, len |-> 4],
          [kw |-> <<"mystery">>, len |-> 7],
          [kw |-> <<"crime">>, len |-> 5],
          [kw |-> <<"heist">>, len |-> 5],
          [kw |-> <<"get", " ", "smart">>, len |-> 9],
          [kw |-> <<"man", " ", "from", " ", "uncle">>, len |-> 14],
          [kw |-> <<"magnum">>, len |-> 6],
          [kw |-> <<"columbo">>, len |-> 7],
          [kw |-> <<"sherlock">>, len |-> 8],
          [kw |-> <<"poirot">>, len |-> 6],
          [kw |-> <<"morse">>, len |-> 5],
          [kw |-> <<" ", "hitman">>, len |-> 7] >>]
    >>

\* str.lower() on the tokens of world names
ThemeLower(c) ==
    CASE c = "Spy"   -> "spy"
      [] c = "Disco" -> "disco"
      [] OTHER       -> c

\* the tokens that are no run of letters and digits
Separators == {" ", "-", "_", ",", ".", "%", "'"}

\* re.search(r'(?<![a-z0-9])' + re.escape(kw) + r'(?![a-z0-9])', name_lower)
KeywordFound(kw, name_lower) ==
    \E k \in 1..(Len(name_lower) - Len(kw) + 1) :
        /\ SubSeq(name_lower, k, k + Len(kw) - 1) = kw
        /\ (k = 1 \/ name_lower[k - 1] \in Separators)
        /\ (k + Len(kw) - 1 = Len(name_lower) \/ name_lower[k + Len(kw)] \in Separators)

\* scores[theme] after the two loops: 2 for a keyword of more than 6 characters that is
\* found, 1 for a shorter one
ThemeScore(theme, name_lower) ==
    LET RowScore(row) ==
            Sum([i \in 1..Len(row.keywords) |->
                    IF KeywordFound(row.keywords[i].kw, name_lower)
                    THEN (IF row.keywords[i].len > 6 THEN 2 ELSE 1) ELSE 0],
                1..Len(row.keywords))
    IN Sum([r \in 1..Len(THEME_KEYWORDS) |->
               IF THEME_KEYWORDS[r].theme = theme THEN RowScore(THEME_KEYWORDS[r]) ELSE 0],
           1..Len(THEME_KEYWORDS))

\* classify: max() over the scores dict, whose keys are in the order of the enumeration,
\* keeps the first key with the largest score
classify(wname) ==
    LET name_lower == Strip([k \in 1..Len(wname) |-> ThemeLower(wname[k])])
        scores == [i \in 1..Len(WorldTheme) |-> ThemeScore(WorldTheme[i], name_lower)]
        best == CHOOSE i \in 1..Len(WorldTheme) :
                    /\ \A j \in 1..Len(WorldTheme) : scores[j] <= scores[i]
                    /\ \A j \in 1..(i - 1) : scores[j] < scores[i]
    IN IF scores[best] = 0 THEN "original" ELSE WorldTheme[best]

\* most words in a world name handed to classify
MaxNameWords == 3

\* the words of those names
ThemeWords == {"Spy", "disco", "bar", "barney", "alien", "war", "military", "nightclub"}

\* ' '.join(words)
JoinWords(words) ==
    Concat([k \in 1..Len(words) |-> IF k = 1 THEN <<words[k]>> ELSE <<" ", words[k]>>])

\* the world names handed to classify
ThemeNames ==
    {JoinWords(words) : words \in UNION {[1..n -> ThemeWords] : n \in 0..MaxNameWords}}

InitTheme ==
    /\ pc = "classify"
    /\ theme_name \in ThemeNames
    /\ best_theme = "unclassified"
    /\ room_count = 0 /\ rooms = <<>>
    /\ GenIdle /\ WorldIdle /\ FilesIdle
    /\ physics_to_apply = <<>> /\ validation_errors = {} /\ validation_warnings = {}
    /\ result = NoResult
    /\ LlmIdle

\* one call of classify(world_name)
Classify ==
    /\ pc = "classify"
    /\ best_theme' = classify(theme_name)
    /\ pc' = "classified"
    /\ UNCHANGED <<rooms, genVars, worldVars, physics_to_apply, validation_errors,
                   validation_warnings, result, theme_name, llmVars, fileVars>>

NextTheme == Classify

SpecTheme == InitTheme /\ [][NextTheme]_vars

----------------------------------------------------------------------------
(* batch_generator.py: RoomDescriptionEnricher.enrich *)
(* A file is the text written to it, a sequence of tokens in which "LF" is a line     *)
(* feed, "CR" a carriage return and "TAB" a tab; configparser's write turns a config   *)
(* into such a text and its read turns the text back into sections.                    *)

\* Room.to_ini_section(): key -> value, later updates overriding earlier ones
RoomItems(r) ==
    [k \in {"name", "description"} \cup DOMAIN r.exits \cup r.properties
            \cup (IF r.is_start THEN {"start"} ELSE {}) |->
        IF k = "start" /\ r.is_start THEN <<"true">>
        ELSE IF k \in r.properties THEN <<"true">>
        ELSE IF k \in DOMAIN r.exits THEN r.exits[k]
        ELSE IF k = "name" THEN r.name
        ELSE r.description]

\* one section as a parser holds it: its keys and values, the exits among them, and
\* every value as text
IniSection(id, items) ==
    [id |-> id,
     exits |-> [d \in (DOMAIN items) \cap DIRECTIONS |-> items[d]],
     texts |-> {items[k] : k \in DOMAIN items},
     items |-> items]

\* the order in which the keys of a room section are written
IniKeyOrder ==
    <<"name", "description", "north", "south", "east", "west", "up", "down",
      "power_zone", "locked", "dark", "start">>

\* RawConfigParser.write: str(value).replace('\n', '\n\t')
ValueOut(v) == Concat([k \in 1..Len(v) |-> IF v[k] = "LF" THEN <<"LF", "TAB">> ELSE <<v[k]>>])

\* RawConfigParser.write: "[section]", then "key = value" for every key, then a blank line
SectionText(sec) ==
    LET InSection(k) == k \in DOMAIN sec.items
        keys == SelectSeq(IniKeyOrder, InSection)
    IN <<"[">> \o sec.id \o <<"]", "LF">>
       \o Concat([n \in 1..Len(keys) |-> <<keys[n], " = ">> \o ValueOut(sec.items[keys[n]]) \o <<"LF">>])
       \o <<"LF">>

\* the lines of a text opened with universal newlines: a line ends at a line feed and
\* at a carriage return
SplitLines(text) ==
    LET ends == {k \in 1..Len(text) : text[k] \in {"LF", "CR"}}
                    \cup (IF text # <<>> /\ text[Len(text)] \notin {"LF", "CR"}
                          THEN {Len(text) + 1} ELSE {})
        EndOf(n) == CHOOSE k \in ends : Cardinality({e \in ends : e < k}) = n - 1
        StartOf(n) == IF n = 1 THEN 1 ELSE EndOf(n - 1) + 1
    IN [n \in 1..Cardinality(ends) |-> SubSeq(text, StartOf(n), EndOf(n) - 1)]

RECURSIVE ReadLines(_, _, _)
\* RawConfigParser._read: a comment or an empty line is skipped, "[id]" opens a section,
\* an indented line continues the value of the key before it, "key = value" at the
\* margin sets a key of the open section; key is the key the last value line belongs to
ReadLines(lines, secs, key) ==
    IF lines = <<>> THEN secs
    ELSE LET line == Head(lines)
             n == Len(secs)
         IN IF line = <<>> \/ Head(line) = "#"
            THEN ReadLines(Tail(lines), secs, key)
            ELSE IF Head(line) = "TAB"
            THEN IF key = "" \/ Tail(line) = <<>> THEN ReadLines(Tail(lines), secs, key)
                 ELSE ReadLines(Tail(lines),
                        [secs EXCEPT ![n].items[key] = @ \o <<"LF">> \o Tail(line)], key)
            ELSE IF Head(line) = "[" /\ line[Len(line)] = "]"
            THEN ReadLines(Tail(lines),
                    Append(secs, [id |-> SubSeq(line, 2, Len(line) - 1),
                                  items |-> [k \in {} |-> <<>>]]), "")
            ELSE IF Len(line) >= 2 /\ line[2] = " = " /\ n > 0
            THEN ReadLines(Tail(lines),
                    [secs EXCEPT ![n].items =
                        [k \in (DOMAIN @) \cup {line[1]} |->
                            IF k = line[1] THEN SubSeq(line, 3, Len(line)) ELSE @[k]]],
                    line[1])
            ELSE ReadLines(Tail(lines), secs, key)

\* config.read(path) followed by config.sections() and config[section]
ReadIni(text) ==
    LET secs == ReadLines(SplitLines(text), <<>>, "")
    IN [k \in 1..Len(secs) |-> IniSection(secs[k].id, secs[k].items)]

\* desc.replace('%', '%%')
EscapedDescription(desc) ==
    Concat([k \in 1..Len(desc) |-> IF desc[k] = "%" THEN <<"%", "%">> ELSE <<desc[k]>>])

\* what self.chain.generate returns for a room: nothing, one line, a line with a percent
\* sign, two lines, and two texts in which a carriage return is followed by words that
\* read as a key and a value
CollaboratorTexts ==
    { <<>>,
      <<"A", " ", "hall", ".">>,
      <<"100", "%", " ", "dark">>,
      <<"Line", " ", "one", ".", "LF", "Line", " ", "two", ".">>,
      <<"Dim", ".", "CR", "up", " = ", "ghost">>,
      <<"Dim", ".", "CR", "dark", " = ", "true">> }

\* the Worlds whose rooms.ini the enricher is run on: the small ones, and one with a
\* locked room
DescribedWorlds ==
    SmallWorlds \cup {SetProperty(RecordBase, RecordBase[2].id, "locked")}

InitDescriptions ==
    /\ pc = "describe"
    /\ rooms \in DescribedWorlds
    /\ room_count = Len(rooms)
    /\ GenIdle
    /\ objects = _build_starter_objects(rooms)
    /\ transformations = EmptyDict /\ sprites = EmptyDict
    /\ physics_applied = <<>> /\ respawn_location = start_room(rooms)
    /\ sd_host = <<"127.0.0.1">>
    /\ RunIdle
    /\ files = [write_all(rooms, objects, sprites, transformations,
                          respawn_location, sd_host, world_name)
                  EXCEPT !.rooms.sections =
                     [k \in 1..Len(rooms) |-> IniSection(rooms[k].id, RoomItems(rooms[k]))]]
    /\ log = <<>> /\ repaired = 0 /\ obj_repaired = 0 /\ spr_repaired = 0 /\ final_errors = {}

\* enrich: the text the collaborator gives for a room, if it gives any, becomes the
\* room's description with its percent signs doubled; the config is then written over
\* rooms.ini, which holds from then on what a reader finds in that text
RoomEnrich ==
    /\ pc = "describe"
    /\ \E descs \in [1..Len(files.rooms.sections) -> CollaboratorTexts] :
          LET config == [k \in 1..Len(files.rooms.sections) |->
                            IF descs[k] # <<>>
                            THEN [files.rooms.sections[k] EXCEPT
                                     !.items["description"] = EscapedDescription(descs[k])]
                            ELSE files.rooms.sections[k]]
              header == Header("Room", world_name)
              text == header \o <<"LF", "LF">>
                         \o Concat([k \in 1..Len(config) |-> SectionText(config[k])])
          IN files' = [files EXCEPT !.rooms = [header |-> header, sections |-> ReadIni(text)]]
    /\ pc' = "described"
    /\ UNCHANGED <<rooms, genVars, worldVars, runVars,
                   log, repaired, obj_repaired, spr_repaired, final_errors>>

NextDescriptions == RoomEnrich

SpecDescriptions == InitDescriptions /\ [][NextDescriptions]_vars

----------------------------------------------------------------------------
(* Claims about RoomGraphGenerator.generate *)

\* every exit of every room of the map names a room of the map
ExitsResolve(rms) ==
    \A k \in 1..Len(rms) : \A d \in DOMAIN rms[k].exits : rms[k].exits[d] \in Keys(rms)

\* every room of the map is reached from room 0 by following exits
AllReachable(rms) == ValidatorReach(rms, {rms[1].id}) = Keys(rms)

\* C1: for every room count and every outcome of the random choices, the map generate
\* returns has every exit target among its room ids and every room reachable from the
\* start room (room 0)
C1_ConnectedAndClosed ==
    pc = "generated" => ExitsResolve(rooms) /\ AllReachable(rooms)

\* the number of adjacency entries, two per edge
EdgeEntries == Sum([i \in Nodes |-> Len(adjacency[i])], Nodes)

\* C9: generate terminates for every room count and every sequence of random outcomes;
\* the bonus loop never runs past its attempt budget and the tree loop never past the
\* last room
C9_GenerateTerminates ==
    /\ [](pc = "bonus" => attempts < bonus_count * ATTEMPT_FACTOR)
    /\ [](pc = "tree" => next_i < room_count)
    /\ <>(pc = "generated")

\* generate has returned although the bonus loop added no edge at all: it left the loop
\* on its attempt budget
C9_Witness ==
    pc = "generated" /\ EdgeEntries = 2 * (room_count - 1)

----------------------------------------------------------------------------
(* Claims about the pipeline *)

\* C2: for every request, the World the pipeline assembles passes validate with an
\* empty error list before anything is serialized
C2_PipelineWorldIsValid ==
    "validate" \in Range(log) => validation_errors = {}

\* the verifier runs recorded so far
Verifications == {k \in 1..Len(log) : log[k] \in {"verify_ok", "verify_failed"}}

\* C5: when validation returns an error the pipeline returns success = false with the
\* validator's whole error list, the writer is never invoked (nothing is written,
\* written_files is empty) and the verifier is never run
C5_InvalidWorldIsNeverWritten ==
    ("validate" \in Range(log) /\ validation_errors # {}) =>
        /\ pc \in {"returned", "exit1"}
        /\ result.success = FALSE
        /\ result.validation_errors = validation_errors
        /\ result.written_files = {}
        /\ files = NoFiles
        /\ "write" \notin Range(log)
        /\ Verifications = {}

\* the program has ended on a World the validator rejected
C5_Witness ==
    pc = "exit1" /\ validation_errors # {} /\ "validate" \in Range(log)

\* the program has run to its end
Ended == pc \in {"exit0", "exit1", "done", "crashed"}

\* C6: a verification that fails after serialization is followed by the repair pass,
\* applied once, and then by exactly one re-verification, whose errors never cause a
\* second repair; a verification that passes is never followed by a repair
C6_FailedVerificationIsRepairedOnce ==
    Ended =>
        /\ \A k \in Verifications :
              (log[k] = "verify_failed" /\ (k = 1 \/ log[k - 1] # "repair")) =>
                  /\ k + 2 <= Len(log)
                  /\ log[k + 1] = "repair"
                  /\ log[k + 2] \in {"verify_ok", "verify_failed"}
        /\ Cardinality({k \in 1..Len(log) : log[k] = "repair"}) <= 1
        /\ \A k \in Verifications :
              log[k] = "verify_ok" => (k = Len(log) \/ log[k + 1] # "repair")

----------------------------------------------------------------------------
(* Claims about the physics packages *)

\* every reference of every transformation names an object or a room of the World, and
\* every object lies in a room of the World or at the sentinel 'none'
ReferencesResolve ==
    /\ \A t \in DOMAIN transformations :
          /\ transformations[t].object_id \in DOMAIN objects
          /\ transformations[t].new_object_id \in (DOMAIN objects) \cup {EMPTY}
          /\ transformations[t].requires_object \in (DOMAIN objects) \cup {EMPTY}
          /\ transformations[t].new_location \in Keys(rooms) \cup {EMPTY}
    /\ \A o \in DOMAIN objects : objects[o].location \in Keys(rooms) \cup {NONE}

\* C3: after one package has been built and injected once into a World with at least
\* one room, every transformation's object_id, new_object_id and requires_object names
\* an object of the World, every new_location names a room, and every object's location
\* is a room id or 'none'
C3_OnePackageResolves ==
    (Len(physics_applied) = 1 /\ Len(rooms) >= 1) => ReferencesResolve

\* a package that sets a destination room and one that needs a second object have been
\* injected, each alone
C3_Witness ==
    /\ Len(physics_applied) = 1
    /\ physics_applied[1] \in {"teleportation", "crafting"}
    /\ \E t \in DOMAIN transformations :
          transformations[t].new_location # EMPTY \/ transformations[t].requires_object # EMPTY

\* C4: for any set of distinct tags injected in any order, the validator reports no
\* error on the resulting World
C4_AnyCombinationValidates ==
    physics_applied # <<>> =>
        validate(rooms, objects, sprites, transformations, respawn_location, sd_host) = {}

----------------------------------------------------------------------------
(* Claims about the repair pass *)

\* every id the artifacts hold: section ids, exit targets, object locations, spawn rooms
ArtifactIds(f) ==
    SectionIds(f.rooms) \cup DOMAIN f.objects.sections \cup DOMAIN f.sprites.sections
        \cup DOMAIN f.transformations.sections
        \cup UNION {{f.rooms.sections[k].exits[d] : d \in DOMAIN f.rooms.sections[k].exits} :
                        k \in 1..Len(f.rooms.sections)}
        \cup {f.objects.sections[o].location : o \in DOMAIN f.objects.sections}
        \cup UNION {Range(SplitComma(f.sprites.sections[x].spawn_rooms)) :
                        x \in DOMAIN f.sprites.sections}

\* C7: the repair introduces no identifier: every section id, exit target, object
\* location and spawn-room entry of the artifacts after the repair was in them before
C7_RepairAddsNoId ==
    [][pc = "repair" => ArtifactIds(files') \subseteq ArtifactIds(files)]_vars

\* the repair has removed an exit, moved an object and rewritten a spawn list
C7_Witness ==
    pc = "recheck" /\ repaired > 0 /\ obj_repaired > 0 /\ spr_repaired > 0

\* rooms.ini with every exit to a missing room taken out, and nothing else touched
WithoutBrokenExits(f) ==
    [f EXCEPT !.rooms.sections = RepairExits(f.rooms, SectionIds(f.rooms))]

\* an artifact set that is valid but for exits that point at rooms that do not exist
CorruptedOnlyByExits(f) ==
    /\ CountBroken(f.rooms, SectionIds(f.rooms)) > 0
    /\ verify(WithoutBrokenExits(f)) = {}

\* C8: on a valid artifact set corrupted only by exits to missing rooms, the repair
\* removes exactly those exits, leaves every other exit, every object location and every
\* spawn list as it was, and the re-verification reports no error
C8_RepairTouchesOnlyBrokenExits ==
    [][(pc = "repair" /\ CorruptedOnlyByExits(files)) =>
          /\ files'.rooms.sections = WithoutBrokenExits(files).rooms.sections
          /\ files'.objects.sections = files.objects.sections
          /\ files'.sprites.sections = files.sprites.sections
          /\ verify(files') = {}]_vars

----------------------------------------------------------------------------
(* Claims about the sprite factory *)

\* C10: whenever the World has a room, every sprite generate_sprites produces has a
\* non-empty spawn list made of room ids of that World, however many names are given
C10_SpawnRoomsValid ==
    (pc = "stage7" /\ Len(rooms) >= 1) =>
        \A x \in DOMAIN sprites :
            /\ sprites[x].spawn_rooms # <<>>
            /\ Range(sprites[x].spawn_rooms) \subseteq Keys(rooms)

\* three sprites were produced for a World of two rooms
C10_Witness ==
    pc = "stage7" /\ Len(rooms) = 2 /\ Cardinality(DOMAIN sprites) = 3

\* C11: generate_sprites called with an empty name list, or with a World that has no
\* room, returns the empty character map (and, returning before its loop, raises nothing)
C11_NoNamesOrNoRoomsGivesNoSprites ==
    /\ (pc = "stage7" /\ Len(rooms) = 0) => sprites = EmptyDict
    /\ generate_sprites(<<>>, rooms, objects) = {EmptyDict}
    /\ \A character_names \in SpriteNameLists :
          generate_sprites(character_names, <<>>, objects) = {EmptyDict}

\* generate_sprites has returned for a World without rooms
C11_Witness ==
    pc = "stage7" /\ Len(rooms) = 0 /\ sprites = EmptyDict

\* C12: a requested room count outside [3,100] is clamped, not rejected: with no custom
\* names, generate returns exactly max(3, min(n, 100)) rooms for every integer n
C12_RoomCountIsClamped ==
    pc = "generated" =>
        Len(rooms) = (IF room_count < 3 THEN 3 ELSE IF room_count > 100 THEN 100 ELSE room_count)

\* generate has returned 100 rooms for a request of 101
C12_Witness ==
    pc = "generated" /\ room_count = 101 /\ Len(rooms) = 100

\* C13: every generated room map has exactly one room flagged as start; it is room 0 and
\* it is named "Entrance", whatever names the theme or the caller supplies
C13_OneStartRoomNamedEntrance ==
    pc = "generated" =>
        /\ Cardinality({k \in 1..Len(rooms) : rooms[k].is_start}) = 1
        /\ rooms[1].is_start
        /\ rooms[1].id = ids[1]
        /\ rooms[1].name = <<"Entrance">>

\* a map was returned in which a later room took the place of an earlier one, and the
\* start room is still the first
C13_Witness ==
    pc = "generated" /\ Len(rooms) < room_count /\ rooms[1].is_start

\* C14: every exit key of every generated room is one of the six labels north, south,
\* east, west, up, down; no other direction label is ever emitted
C14_OnlyEngineDirections ==
    pc = "generated" =>
        \A k \in 1..Len(rooms) :
            DOMAIN rooms[k].exits \subseteq {"north", "south", "east", "west", "up", "down"}

\* a map was returned in which one room has exits in three directions
C14_Witness ==
    pc = "generated" /\ \E k \in 1..Len(rooms) : Cardinality(DOMAIN rooms[k].exits) >= 3

----------------------------------------------------------------------------
(* C15: a fault at a pipeline stage *)

\* C15: once an unexpected fault has been raised at a pipeline stage, generate has
\* returned the one generic pipeline-failure result: success is false, there is exactly
\* one error entry, nothing else is reported and no World is attached; and the World the
\* stages had built so far is held by nothing
C15_FaultGivesGenericFailure ==
    "fault" \in Range(log) =>
        /\ pc \in {"returned", "exit1"}
        /\ ~result.success
        /\ Cardinality(result.validation_errors) = 1
        /\ result.validation_warnings = {} /\ result.roundtrip_errors = {}
        /\ result.written_files = {}
        /\ ~result.world
        /\ rooms = <<>> /\ WorldIdle

\* a fault raised after the files were written, while they were being verified
C15_Witness ==
    /\ log = <<"validate", "write", "fault">>
    /\ pc = "exit1" /\ ~result.world /\ files # NoFiles

----------------------------------------------------------------------------
(* C16: warnings do not stop the pipeline *)

\* the warnings a World deserves: one per character whose spawn list is empty
EmptySpawnWarnings == {<<"check7", sp>> : sp \in {sp \in DOMAIN sprites : Len(sprites[sp].spawn_rooms) = 0}}

\* C16: once stage 9 has validated a World without finding an error, the pipeline goes
\* on to write it, whatever warnings there are; and the result of a successful run
\* carries every warning of the validation
C16_WarningsDoNotBlock ==
    /\ (pc \in {"stage10", "stage11", "returned"} /\ validation_errors = {}) =>
          \/ pc = "stage10"
          \/ /\ "write" \in Range(log)
             /\ files = write_all(rooms, objects, sprites, transformations,
                                  respawn_location, sd_host, world_name)
    /\ (pc = "returned" /\ result.success) =>
          /\ result.world
          /\ EmptySpawnWarnings \subseteq result.validation_warnings

\* a World with a character that spawns nowhere, written and returned as a success
C16_Witness ==
    /\ pc = "returned" /\ result.success
    /\ EmptySpawnWarnings # {} /\ EmptySpawnWarnings \subseteq result.validation_warnings
    /\ files.exists

----------------------------------------------------------------------------
(* C17: the tag classify returns *)

\* the rows of the keyword table whose tag has the highest score for a name
TopRows(wname) ==
    LET name_lower == Strip([k \in 1..Len(wname) |-> ThemeLower(wname[k])])
        Score(r) == ThemeScore(THEME_KEYWORDS[r].theme, name_lower)
    IN {r \in 1..Len(THEME_KEYWORDS) :
            Score(r) > 0 /\ \A q \in 1..Len(THEME_KEYWORDS) : Score(q) <= Score(r)}

\* C17: classify returns the tag with the highest score; of several tags with the
\* highest score it returns the one whose row comes first in the keyword table; and it
\* returns "original" when no keyword is found in the name
C17_ClassifyPrefersTableOrder ==
    pc = "classified" =>
        best_theme = (IF TopRows(theme_name) = {} THEN "original"
                      ELSE THEME_KEYWORDS[CHOOSE r \in TopRows(theme_name) :
                                             \A q \in TopRows(theme_name) : r <= q].theme)

----------------------------------------------------------------------------
(* C18: the verifier's battery against the validator's *)

\* the checks of the validator the verifier is said to repeat: exits, start rooms,
\* reachability, object locations, spawn rooms, loot, the four references of a
\* transformation, and the respawn room
SharedBattery ==
    {"check1", "check2", "check3", "check5", "check7", "check8",
     "check10", "check11", "check12", "check13", "check14"}

\* C18: for every record set written out as it is, the verifier reports an error
\* whenever the validator reports a dangling exit, an unresolved or non-container object
\* location, an unresolved spawn room, loot id, transformation id or destination room or
\* respawn room, a wrong number of start rooms, or an unreachable room
C18_VerifierRepeatsValidator ==
    pc = "compared" =>
        ((\E e \in validation_errors : e[1] \in SharedBattery) => final_errors # {})

----------------------------------------------------------------------------
(* C19: what the enrichment of room descriptions changes *)

\* the keys and values of a room section other than its description
BesidesDescription(sec) == [k \in (DOMAIN sec.items) \ {"description"} |-> sec.items[k]]

\* C19: a call of RoomDescriptionEnricher.enrich leaves rooms.ini with the same room
\* sections as before, and in every section with the same exits, properties and start
\* flag: only description values differ, whatever the collaborator returned
C19_OnlyDescriptionsChange ==
    [][pc = "describe" =>
          /\ Len(files'.rooms.sections) = Len(files.rooms.sections)
          /\ \A k \in 1..Len(files.rooms.sections) :
                /\ k <= Len(files'.rooms.sections)
                /\ files'.rooms.sections[k].id = files.rooms.sections[k].id
                /\ BesidesDescription(files'.rooms.sections[k])
                      = BesidesDescription(files.rooms.sections[k])]_vars

----------------------------------------------------------------------------
(* C20: content enrichment without a naming collaborator *)

\* C20: when the naming collaborator returned no name, the object, character and
\* transformation artifacts hold after the content-enrichment step the records the
\* core compiler generated, as stage 10 wrote them
C20_UnnamedKeepsCoreRecords ==
    (pc = "step5" /\ log[Len(log)] = "enrich_unnamed") =>
        LET core == write_all(rooms, objects, sprites, transformations,
                              respawn_location, sd_host, world_name)
        IN /\ files.objects.sections = core.objects.sections
           /\ files.sprites.sections = core.sprites.sections
           /\ files.transformations.sections = core.transformations.sections

----------------------------------------------------------------------------
(* llm_providers.py: ProviderChain.generate *)

\* Texts of this section are sequences of characters.

\* _clean_response on a text that holds none of the preambles and prompts it removes
clean_response(text) == Strip(Strip(text))

\* n letters
Letters(n) == [i \in 1..n |-> "x"]

\* what the service behind a provider sends back when it is asked for a room description:
\* nothing usable (an error, a timeout, a malformed body), or a text
NoReply == <<"no reply">>
Replies ==
    {<<>>, Letters(20), Letters(21), <<" ">> \o Letters(20) \o <<" ">>,
     <<" ">> \o Letters(21)}

\* the names of the three network providers as build_provider_chain configures them
GPT4AllName == "GPT4All (Llama 3 8B Instruct)"
ClaudeName == "Claude API (claude-haiku-4-5-20251001)"
HuggingFaceName == "HuggingFace (Meta-Llama-3-8B-Instruct)"
TemplateName == "Template (fallback)"

\* build_provider_chain: GPT4All, Claude, HuggingFace, and the template provider last.
\* is_available of a network provider depends on the configuration and the network;
\* a provider that is not available is never asked
NetworkProvider(name) ==
    {[name |-> name, template |-> FALSE, available |-> FALSE, reply |-> NoReply]}
    \cup {[name |-> name, template |-> FALSE, available |-> TRUE, reply |-> r] :
             r \in Replies \cup {NoReply}}
TemplateProvider ==
    [name |-> TemplateName, template |-> TRUE, available |-> TRUE, reply |-> NoReply]
build_provider_chain ==
    {<<g, c, h, TemplateProvider>> :
        g \in NetworkProvider(GPT4AllName), c \in NetworkProvider(ClaudeName),
        h \in NetworkProvider(HuggingFaceName)}

\* GPT4AllProvider.generate, ClaudeProvider.generate, HuggingFaceProvider.generate: None
\* when the request failed, the cleaned text otherwise
ProviderGenerate(p) == IF p.reply = NoReply THEN NONE ELSE clean_response(p.reply)

\* TemplateProvider.generate: template 1 with the default style
Template1(world, room) ==
    <<"T", "h", "e", " ">>
    \o room
    \o <<" ", "c", "a", "r", "r", "i", "e", "s", " ", "t", "h", "e", " ", "u", "n", "m", "i",
        "s", "t", "a", "k", "a", "b", "l", "e", " ", "c", "h", "a", "r", "a", "c", "t", "e",
        "r", " ", "o", "f", " ">>
    \o world
    \o <<".", " ", "E", "v", "e", "r", "y", "t", "h", "i", "n", "g", " ", "h", "e", "r", "e",
        " ", "i", "s", " ", "m", "y", "s", "t", "e", "r", "i", "o", "u", "s", " ", "i", "n",
        " ", "w", "a", "y", "s", " ", "t", "h", "a", "t", " ", "a", "r", "e", " ", "i", "m",
        "m", "e", "d", "i", "a", "t", "e", "l", "y", " ", "a", "p", "p", "a", "r", "e", "n",
        "t", " ", "-", " ", "t", "h", "e", " ", "a", "t", "m", "o", "s", "p", "h", "e", "r",
        "i", "c", " ", "s", "u", "r", "f", "a", "c", "e", "s", ",", " ", "t", "h", "e", " ",
        "q", "u", "a", "l", "i", "t", "y", " ", "o", "f", " ", "l", "i", "g", "h", "t", ",",
        " ", "t", "h", "e", " ", "a", " ", "s", "e", "n", "s", "e", " ", "o", "f", " ", "p",
        "o", "s", "s", "i", "b", "i", "l", "i", "t", "y", " ", "t", "h", "a", "t", " ", "f",
        "i", "l", "l", "s", " ", "t", "h", "e", " ", "a", "i", "r", ".", " ", "T", "h", "i",
        "s", " ", "i", "s", " ", "a", " ", "s", "p", "a", "c", "e", " ", "t", "h", "a", "t",
        " ", "k", "n", "o", "w", "s", " ", "w", "h", "a", "t", " ", "i", "t", " ", "i", "s",
        ".">>

\* TemplateProvider.generate: template 2 with the default style
Template2(world, room) ==
    <<"Y", "o", "u", " ", "s", "t", "a", "n", "d", " ", "i", "n", " ", "t", "h", "e", " ">>
    \o room
    \o <<".", " ", "T", "h", "e", " ", "a", "t", "m", "o", "s", "p", "h", "e", "r", "e", " ",
        "o", "f", " ">>
    \o world
    \o <<" ", "i", "s", " ", "p", "a", "l", "p", "a", "b", "l", "e", " ", "h", "e", "r", "e",
        " ", "-", " ", "m", "y", "s", "t", "e", "r", "i", "o", "u", "s", " ", "a", "n", "d",
        " ", "d", "i", "s", "t", "i", "n", "c", "t", ".", " ", "T", "h", "e", " ", "a", "t",
        "m", "o", "s", "p", "h", "e", "r", "i", "c", " ", "s", "u", "r", "r", "o", "u", "n",
        "d", "i", "n", "g", "s", " ", "h", "o", "l", "d", " ", "t", "h", "e", "i", "r", " ",
        "s", "e", "c", "r", "e", "t", "s", " ", "q", "u", "i", "e", "t", "l", "y", ",", " ",
        "w", "h", "i", "l", "e", " ", "a", " ", "s", "e", "n", "s", "e", " ", "o", "f", " ",
        "p", "o", "s", "s", "i", "b", "i", "l", "i", "t", "y", " ", "r", "e", "m", "i", "n",
        "d", "s", " ", "y", "o", "u", " ", "e", "x", "a", "c", "t", "l", "y", " ", "w", "h",
        "e", "r", "e", " ", "y", "o", "u", " ", "a", "r", "e", " ", "a", "n", "d", " ", "w",
        "h", "a", "t", " ", "t", "h", "i", "s", " ", "p", "l", "a", "c", "e", " ", "d", "e",
        "m", "a", "n", "d", "s", " ", "o", "f", " ", "y", "o", "u", ".">>

\* TemplateProvider.generate: template 3 with the default style
Template3(world, room) ==
    <<"T", "h", "e", " ">>
    \o room
    \o <<" ", "o", "f", " ">>
    \o world
    \o <<".", " ", "M", "y", "s", "t", "e", "r", "i", "o", "u", "s", " ", "l", "i", "g", "h",
        "t", " ", "p", "l", "a", "y", "s", " ", "a", "c", "r", "o", "s", "s", " ", "a", "t",
        "m", "o", "s", "p", "h", "e", "r", "i", "c", " ", "s", "u", "r", "f", "a", "c", "e",
        "s", ",", " ", "a", "n", "d", " ", "t", "h", "e", " ", "a", "i", "r", " ", "c", "a",
        "r", "r", "i", "e", "s", " ", "a", " ", "s", "e", "n", "s", "e", " ", "o", "f", " ",
        "p", "o", "s", "s", "i", "b", "i", "l", "i", "t", "y", ".", " ", "I", "t", " ", "i",
        "s", " ", "a", " ", "r", "o", "o", "m", " ", "t", "h", "a", "t", " ", "h", "a", "s",
        " ", "s", "e", "e", "n", " ", "t", "h", "i", "n", "g", "s", " ", "a", "n", "d", " ",
        "r", "e", "m", "e", "m", "b", "e", "r", "s", " ", "t", "h", "e", "m", ",", " ", "e",
        "v", "e", "n", " ", "i", "f", " ", "i", "t", " ", "c", "h", "o", "o", "s", "e", "s",
        " ", "n", "o", "t", " ", "t", "o", " ", "s", "h", "a", "r", "e", " ", "t", "h", "e",
        "m", " ", "i", "m", "m", "e", "d", "i", "a", "t", "e", "l", "y", ".">>

\* TemplateProvider.generate: random.choice of the three templates ("-" stands for the dash)
TemplateTexts(world, room) ==
    {Template1(world, room), Template2(world, room), Template3(world, room)}

\* the emergency fallback of ProviderChain.generate
EmergencyText(world, room) ==
    <<"T", "h", "e", " ">> \o room \o <<" ", "o", "f", " ">> \o world
    \o <<".", " ", "E", "x", "i", "t", "s", " ", "l", "e", "a", "d", " ", "o", "n", "w",
        "a", "r", "d", ".">>

\* result and len(result.strip()) > 1: the test with the threshold lowered
AcceptedShort(text) == text # NONE /\ text # <<>> /\ Len(Strip(text)) > 1

\* result and len(result.strip()) > 20
Accepted(text) == text # NONE /\ text # <<>> /\ Len(Strip(text)) > 20

\* ProviderChain.generate(world_name, room_name), the template provider choosing pick
generate(ps, world, room, pick) ==
    LET answer(i) == IF ps[i].template THEN pick ELSE ProviderGenerate(ps[i])
        ok == {i \in 1..Len(ps) : ps[i].available /\ Accepted(answer(i))}
        first == CHOOSE i \in ok : \A j \in ok : i <= j
    IN IF ok = {} THEN [text |-> EmergencyText(world, room), last |-> "emergency_fallback"]
       ELSE [text |-> answer(first), last |-> ps[first].name]

\* world and room names of the calls explored
ChainWorlds == {<<>>, <<"O", "z">>}
ChainRooms == {<<>>, <<"D", "e", "n">>}

InitChain ==
    /\ pc = "chain"
    /\ providers \in build_provider_chain
    /\ chain_call \in [world : ChainWorlds, room : ChainRooms]
    /\ chain_text = <<>> /\ last_provider = "none"
    /\ prompts = <<>> /\ facts = [setting |-> FALSE, characters |-> FALSE]
    /\ confidence = "low" /\ method = "fallback"
    /\ room_count = 0 /\ rooms = <<>>
    /\ GenIdle /\ WorldIdle /\ FilesIdle /\ ThemeIdle
    /\ physics_to_apply = <<>> /\ validation_errors = {} /\ validation_warnings = {}
    /\ result = NoResult

\* one call of chain.generate(world_name, room_name)
ChainGenerate ==
    /\ pc = "chain"
    /\ \E pick \in TemplateTexts(chain_call.world, chain_call.room) :
          LET r == generate(providers, chain_call.world, chain_call.room, pick)
          IN chain_text' = r.text /\ last_provider' = r.last
    /\ pc' = "generated"
    /\ UNCHANGED <<rooms, genVars, worldVars, physics_to_apply, validation_errors,
                   validation_warnings, result, themeVars, providers, chain_call,
                   prompts, facts, confidence, method, fileVars>>

NextChain == ChainGenerate

SpecChain == InitChain /\ [][NextChain]_vars

----------------------------------------------------------------------------
(* C21: the provider chain *)

\* what provider i of the chain answers in the state, the template provider having
\* answered text
ChainAnswer(i, text) ==
    IF providers[i].template THEN text ELSE ProviderGenerate(providers[i])

\* C21: generate returns the text of the first provider, in list order, that is available
\* and answers with more than 20 characters, and records that provider as last_provider;
\* with the template provider last the text is never empty and the emergency fallback
\* is never used
C21_FirstLongAnswerWins ==
    pc = "generated" =>
        /\ \E i \in 1..Len(providers) :
              /\ providers[i].available
              /\ Len(Strip(chain_text)) > 20
              /\ chain_text = ChainAnswer(i, chain_text)
              /\ providers[i].template =>
                    chain_text \in TemplateTexts(chain_call.world, chain_call.room)
              /\ last_provider = providers[i].name
              /\ \A j \in 1..(i - 1) :
                    \/ ~providers[j].available
                    \/ ProviderGenerate(providers[j]) = NONE
                    \/ Len(Strip(ProviderGenerate(providers[j]))) <= 20
        /\ chain_text # <<>>
        /\ last_provider # "emergency_fallback"

\* the second provider answers after the first was skipped and before the template is asked
C21_Witness ==
    /\ pc = "generated"
    /\ ~providers[1].available
    /\ providers[2].available /\ providers[2].reply = <<" ">> \o Letters(21)
    /\ last_provider = ClaudeName /\ chain_text = Letters(21)

----------------------------------------------------------------------------
(* physics_templates.py: PhysicsPackage.inject called again for an applied tag *)

\* get_package(tag).inject(world) for a tag that has been applied before
ReinjectPackage ==
    /\ pc = "stage5"
    /\ \E tag \in Range(physics_applied) :
          \E r1, r2 \in _random_room(rooms) :
             LET package == get_package(tag, rooms, r1, r2, r1)
             IN /\ rooms' = TagRoom(package, rooms)
                /\ objects' = inject_objects(package, objects)
                /\ transformations' = inject_transformations(package, transformations)
                /\ physics_applied' = inject_applied(package, physics_applied)
    /\ UNCHANGED <<pc, genVars, sprites, respawn_location, sd_host, runVars, fileVars>>

NextReinject == InjectPackage \/ ReinjectPackage

SpecReinject == InitPhysics /\ [][NextReinject]_vars

\* the entries the World holds: applied tags, objects and transformations
WorldEntries(objs, trans, applied) ==
    Cardinality(DOMAIN objs) + Cardinality(DOMAIN trans) + Len(applied)

\* C22: injecting a package whose tag was already applied duplicates records: after the
\* second inject the World holds more entries (applied tags, objects, transformations)
\* than after the first
C22_ReinjectAddsEntries ==
    [][ReinjectPackage =>
          WorldEntries(objects', transformations', physics_applied')
              > WorldEntries(objects, transformations, physics_applied)]_vars

----------------------------------------------------------------------------
(* C23: room ids after de-duplication *)

\* C23: whatever custom names the caller supplies, the ids generate derives are pairwise
\* distinct after the counter suffix, and the returned map holds exactly the clamped
\* room count of rooms: no room record overwrites another
C23_IdsDistinct ==
    pc = "generated" =>
        /\ \A i, j \in 1..Len(ids) : i # j => ids[i] # ids[j]
        /\ Len(rooms) = room_count

----------------------------------------------------------------------------
(* C24: which objects the repair relocates *)

\* the object's location names a room section or an object section of the artifacts
LocationResolves(f, o) ==
    f.objects.sections[o].location \in SectionIds(f.rooms) \cup DOMAIN f.objects.sections

----------------------------------------------------------------------------
(* sprite_factory.py: SpriteFactory._role_aggression *)

\* THEME_DEFAULTS: sprite_aggression_low and sprite_aggression_high of every theme, in
\* hundredths
THEME_AGGRESSION ==
    [t \in Range(WorldTheme) |->
        CASE t = "scifi"     -> [lo |-> 15, hi |-> 75]
          [] t = "military"  -> [lo |-> 20, hi |-> 80]
          [] t = "fantasy"   -> [lo |-> 20, hi |-> 70]
          [] t = "domestic"  -> [lo |-> 5,  hi |-> 20]
          [] t = "horror"    -> [lo |-> 30, hi |-> 90]
          [] t = "adventure" -> [lo |-> 25, hi |-> 75]
          [] t = "sitcom"    -> [lo |-> 5,  hi |-> 25]
          [] t = "crime_spy" -> [lo |-> 30, hi |-> 80]
          [] t = "disco"     -> [lo |-> 5,  hi |-> 40]
          [] t = "nightclub" -> [lo |-> 10, hi |-> 50]
          [] t = "original"  -> [lo |-> 20, hi |-> 60]]

\* round(x, 2) of a value of x thousandths, in hundredths. The value is a binary float:
\* when the decimal value lies halfway between two hundredths the float lies on either
\* side of it, and round goes the way the float falls
Round2(thousandths) ==
    IF thousandths % 10 = 5
    THEN {thousandths \div 10, thousandths \div 10 + 1}
    ELSE {(thousandths + 5) \div 10}

\* the mapping of _role_aggression, in thousandths: lo, lo, lo * 1.5, (lo + hi) / 2, hi,
\* min(0.95, hi * 1.1)
RoleValue(role, lo, hi) ==
    CASE role \in {"hero", "ally"} -> lo * 10
      [] role = "neutral"          -> lo * 15
      [] role = "guard"            -> (lo + hi) * 5
      [] role = "villain"          -> hi * 10
      [] role = "boss"             -> IF hi * 11 < 950 THEN hi * 11 ELSE 950

\* _role_aggression(role, theme): the values round can return, in hundredths
_role_aggression(role, theme) ==
    Round2(RoleValue(role, THEME_AGGRESSION[theme].lo, THEME_AGGRESSION[theme].hi))

\* character names that match no entry of KNOWN_CHARACTER_OVERRIDES
PlainNames ==
    { <<"Bob">>, <<"King">>, <<"Guard">>, <<"Boss">>, <<"cook">>, <<"friend">>,
      <<"sentry">>, <<"chief">>, <<"evil", " ", "King">>, <<"hero">> }

InitAggression ==
    /\ pc = "classify_character"
    /\ best_theme \in Range(WorldTheme)
    /\ theme_name = <<>>
    /\ room_count = 0 /\ rooms = <<>>
    /\ GenIdle /\ WorldIdle /\ FilesIdle /\ LlmIdle
    /\ physics_to_apply = <<>> /\ validation_errors = {} /\ validation_warnings = {}
    /\ result = NoResult

\* role, behavior, aggression = self._classify(name, theme), kept as the character's
\* record
ClassifyCharacter ==
    /\ pc = "classify_character"
    /\ \E name \in PlainNames :
          \E aggression \in _role_aggression(_classify(name), best_theme) :
             sprites' = Put(EmptyDict, [id |-> _make_id(name), role |-> _classify(name),
                                        aggression |-> aggression])
    /\ pc' = "character_classified"
    /\ UNCHANGED <<rooms, genVars, objects, transformations, physics_applied,
                   respawn_location, sd_host, runVars, fileVars>>

NextAggression == ClassifyCharacter

SpecAggression == InitAggression /\ [][NextAggression]_vars

\* C25: the aggression of every character made from a name that matches no override
\* lies within the bounds of the theme, low <= aggression <= high in hundredths,
\* whatever the role and the theme
C25_AggressionWithinTheme ==
    pc = "character_classified" =>
        \A x \in DOMAIN sprites :
            /\ THEME_AGGRESSION[best_theme].lo <= sprites[x].aggression
            /\ sprites[x].aggression <= THEME_AGGRESSION[best_theme].hi

----------------------------------------------------------------------------
(* C26: the validator's check of object locations *)

\* the validator reports a location error for object o of the World
LocationError(o) ==
    \E e \in validate(rooms, objects, sprites, transformations, respawn_location, sd_host) :
        e[1] = "check5" /\ e[2] = o

\* C26: the validator reports an error for an object whose location is neither 'none'
\* or empty nor the id of a room or of an object, and for one whose location names an
\* object that is no container; it reports no location error for an object whose
\* location is an existing room, a container object, or 'none'
C26_LocationCheck ==
    \A o \in DOMAIN objects :
        LET loc == objects[o].location
        IN /\ (loc \notin {EMPTY, NONE} /\ loc \notin Keys(rooms) \cup DOMAIN objects)
                 => LocationError(o)
           /\ (loc \in DOMAIN objects /\ loc \notin Keys(rooms)
                 /\ ~objects[loc].is_container) => LocationError(o)
           /\ (loc \in {EMPTY, NONE} \/ loc \in Keys(rooms)
                 \/ (loc \in DOMAIN objects /\ objects[loc].is_container))
                 => ~LocationError(o)

----------------------------------------------------------------------------
(* world_interview.py: WorldKnowledgeInterview.run, asked through ProviderChain.generate_raw *)

\* what the service behind a provider sends back to each kind of prompt; "LF" is a line
\* feed
DescribeReplies ==
    {<<"S", "h", "o", "w">>,
     <<"A", " ", "c", "o", "p", " ", "s", "h", "o", "w">>,
     <<"I", "t", " ", "i", "s", " ", "u", "n", "k", "n", "o", "w", "n">>}
StructuredReplies ==
    {<<"S", "E", "T", "T", "I", "N", "G", ":", " ", "B", "a", "r", "LF", "C", "H", "A",
        "R", "A", "C", "T", "E", "R", "S", ":", " ", "A", "l", ",", " ", "B", "o">>,
     <<"S", "E", "T", "T", "I", "N", "G", ":", " ", "B", "a", "r", "LF", "C", "H", "A",
        "R", "A", "C", "T", "E", "R", "S", ":", " ", "A">>,
     <<"C", "H", "A", "R", "A", "C", "T", "E", "R", "S", ":", " ", "A", "l", ",", " ",
        "B", "o">>}
YesText == <<"Y", "e", "s">>
ValidateReplies ==
    {YesText,
     <<"Y", "e", "s", ".">>,
     <<"Y", "e", "s", ",", " ", "a", "l", "l", " ", "c", "o", "r", "r", "e", "c", "t">>,
     <<"N", "o">>,
     <<"N", "o", ",", " ", "w", "r", "o", "n", "g">>,
     <<"M", "a", "y", "b", "e", " ", "s", "o">>}

\* the replies a prompt of each kind can get
RepliesTo(kind) ==
    CASE kind = "describe" -> DescribeReplies
      [] kind \in {"extract", "unknown_fallback", "correct"} -> StructuredReplies
      [] kind = "validate" -> ValidateReplies

\* GPT4AllProvider._generate_raw, ClaudeProvider._generate_raw: None when the request
\* failed, the stripped text otherwise
ProviderGenerateRaw(reply) == IF reply = NoReply THEN NONE ELSE Strip(reply)

\* result and len(result.strip()) > 5
AcceptedRaw(text) == text # NONE /\ text # <<>> /\ Len(Strip(text)) > 5

\* the providers generate_raw asks when they answer replies: the template provider is
\* skipped, a provider that is not available is skipped, and the loop ends at the first
\* accepted answer
AskedRaw(ps, replies) ==
    {i \in 1..Len(ps) :
        /\ ~ps[i].template /\ ps[i].available
        /\ \A j \in 1..(i - 1) :
              (~ps[j].template /\ ps[j].available)
                  => ~AcceptedRaw(ProviderGenerateRaw(replies[j]))}

\* ProviderChain.generate_raw(prompt): the text returned ('' when no provider gave an
\* accepted answer) and the provider recorded
generate_raw(ps, replies, last) ==
    LET ok == {i \in AskedRaw(ps, replies) : AcceptedRaw(ProviderGenerateRaw(replies[i]))}
        first == CHOOSE i \in ok : \A j \in ok : i <= j
    IN IF ok = {} THEN [text |-> <<>>, last |-> last]
       ELSE [text |-> ProviderGenerateRaw(replies[first]), last |-> ps[first].name]

\* str.lower() on one character of an answer
LowerChar(c) ==
    CASE c = "Y" -> "y" [] c = "N" -> "n" [] c = "M" -> "m" [] OTHER -> c

\* the first word of an answer as _is_yes and _is_no take it: the text stripped, lowered,
\* cut at the first blank, and '.', ',' and '!' taken off its end (the answers of the model
\* begin with a letter)
FirstWord(text) ==
    LET t == Strip(text)
        blanks == {k \in 1..Len(t) : t[k] = " "}
        stop == IF blanks = {} THEN Len(t) + 1 ELSE CHOOSE k \in blanks : \A m \in blanks : k <= m
        word == [k \in 1..(stop - 1) |-> LowerChar(t[k])]
        solid == {k \in 1..Len(word) : word[k] \notin {".", ",", "!"}}
    IN IF solid = {} THEN <<>>
       ELSE SubSeq(word, 1, CHOOSE k \in solid : \A m \in solid : k >= m)

_is_yes(text) ==
    FirstWord(text) \in
        {<<"y", "e", "s">>,
         <<"y">>,
         <<"y", "e", "p">>,
         <<"y", "u", "p">>,
         <<"c", "o", "r", "r", "e", "c", "t">>,
         <<"r", "i", "g", "h", "t">>,
         <<"t", "r", "u", "e">>,
         <<"a", "f", "f", "i", "r", "m", "a", "t", "i", "v", "e">>,
         <<"a", "b", "s", "o", "l", "u", "t", "e", "l", "y">>,
         <<"i", "n", "d", "e", "e", "d">>,
         <<"c", "o", "n", "f", "i", "r", "m", "e", "d">>,
         <<"a", "c", "c", "u", "r", "a", "t", "e">>,
         <<"a", "l", "l">>}

_is_no(text) ==
    FirstWord(text) \in
        {<<"n", "o">>,
         <<"n">>,
         <<"n", "o", "p", "e">>,
         <<"i", "n", "c", "o", "r", "r", "e", "c", "t">>,
         <<"w", "r", "o", "n", "g">>,
         <<"f", "a", "l", "s", "e">>,
         <<"n", "e", "g", "a", "t", "i", "v", "e">>,
         <<"n", "o", "t">>}

\* _is_unknown: the description holds one of the markers (of which the model's
\* descriptions hold at most "unknown")
_is_unknown(description) ==
    LET marker == <<"u", "n", "k", "n", "o", "w", "n">>
    IN \E k \in 1..Len(description) :
          k + Len(marker) - 1 <= Len(description)
              /\ SubSeq(description, k, k + Len(marker) - 1) = marker

\* _extract_field(text, field): the stripped value of the first line "FIELD: value" (the
\* replies of the model write the field names in capitals and leave no value empty)
_extract_field(text, field) ==
    LET lines == SplitLines(text)
        Value(n) == Strip(SubSeq(lines[n], Len(field) + 2, Len(lines[n])))
        hits == {n \in 1..Len(lines) :
                    /\ Len(lines[n]) > Len(field)
                    /\ SubSeq(lines[n], 1, Len(field) + 1) = field \o <<":">>
                    /\ Value(n) # <<>>}
    IN IF hits = {} THEN <<>> ELSE Value(CHOOSE n \in hits : \A m \in hits : n <= m)

\* _parse_csv: the stripped items longer than one character
_parse_csv(text) ==
    LET fs == Fields(text, <<>>, <<>>)
        Kept(x) == Len(x) > 1
    IN SelectSeq([k \in 1..Len(fs) |-> Strip(fs[k])], Kept)

\* _parse_structured, as far as run tests it: whether 'setting' and 'characters' are
\* non-empty
_parse_structured(text) ==
    [setting |-> _extract_field(text, <<"S", "E", "T", "T", "I", "N", "G">>) # <<>>,
     characters |-> _parse_csv(_extract_field(text, <<"C", "H", "A", "R", "A", "C", "T", "E", "R", "S">>)) # <<>>]

\* the chains the interview is run with: the template provider last, the HuggingFace
\* provider without a key
InterviewChains ==
    {<<[name |-> GPT4AllName, template |-> FALSE, available |-> g, reply |-> NoReply],
       [name |-> ClaudeName, template |-> FALSE, available |-> c, reply |-> NoReply],
       [name |-> HuggingFaceName, template |-> FALSE, available |-> FALSE, reply |-> NoReply],
       TemplateProvider>> : g \in BOOLEAN, c \in BOOLEAN}

\* the replies the providers of the chain give to one prompt: one reply (or a failure)
\* from every provider that is asked
RepliesOfChain(kind) ==
    {r \in [1..3 -> RepliesTo(kind) \cup {NoReply}] :
        \A i \in 1..3 : i \notin AskedRaw(providers, r) => r[i] = NoReply}

InitInterview ==
    /\ pc = "t1"
    /\ providers \in InterviewChains
    /\ chain_call = <<>> /\ chain_text = <<>> /\ last_provider = "none"
    /\ prompts = <<>> /\ facts = [setting |-> FALSE, characters |-> FALSE]
    /\ confidence = "low" /\ method = "fallback"
    /\ room_count = 0 /\ rooms = <<>>
    /\ GenIdle /\ WorldIdle /\ FilesIdle /\ ThemeIdle
    /\ physics_to_apply = <<>> /\ validation_errors = {} /\ validation_warnings = {}
    /\ result = NoResult

\* self._ask(prompt): the prompt goes to the chain, the answer comes back
Ask(kind, replies) ==
    LET r == generate_raw(providers, replies, last_provider)
    IN /\ chain_text' = r.text
       /\ last_provider' = r.last
       /\ prompts' = Append(prompts, [kind |-> kind, replies |-> replies])

\* lines 218-225: turn 1, the open description
InterviewT1 ==
    /\ pc = "t1"
    /\ \E replies \in RepliesOfChain("describe") : Ask("describe", replies)
    /\ IF chain_text' = <<>>
       THEN method' = "fallback" /\ pc' = "interviewed"
       ELSE method' = method /\ pc' = "t2"
    /\ UNCHANGED <<rooms, genVars, worldVars, physics_to_apply, validation_errors,
                   validation_warnings, result, themeVars, providers, chain_call,
                   facts, confidence, fileVars>>

\* lines 227-254: turn 2, the structured extraction; chain_text is the description
InterviewT2 ==
    /\ pc = "t2"
    /\ LET kind == IF _is_unknown(Strip(chain_text)) THEN "unknown_fallback" ELSE "extract"
       IN \E replies \in RepliesOfChain(kind) : Ask(kind, replies)
    /\ IF chain_text' = <<>>
       THEN /\ method' = "description_only" /\ pc' = "interviewed"
            /\ UNCHANGED <<facts, confidence>>
       ELSE /\ facts' = _parse_structured(chain_text')
            /\ IF facts'.setting /\ facts'.characters
               THEN pc' = "t3" /\ UNCHANGED <<confidence, method>>
               ELSE confidence' = "low" /\ method' = "llm_interview" /\ pc' = "interviewed"
    /\ UNCHANGED <<rooms, genVars, worldVars, physics_to_apply, validation_errors,
                   validation_warnings, result, themeVars, providers, chain_call, fileVars>>

\* lines 256-267 and 309-314: turn 3, the cross-validation
InterviewT3 ==
    /\ pc = "t3"
    /\ \E replies \in RepliesOfChain("validate") : Ask("validate", replies)
    /\ IF chain_text' # <<>> /\ _is_no(chain_text')
       THEN pc' = "t4" /\ UNCHANGED <<confidence, method>>
       ELSE /\ confidence' = IF chain_text' # <<>> /\ _is_yes(chain_text')
                             THEN "high" ELSE "medium"
            /\ method' = "llm_interview" /\ pc' = "interviewed"
    /\ UNCHANGED <<rooms, genVars, worldVars, physics_to_apply, validation_errors,
                   validation_warnings, result, themeVars, providers, chain_call,
                   facts, fileVars>>

\* lines 268-286 and 307-308: turn 4, the correction, merged into the facts
InterviewT4 ==
    /\ pc = "t4"
    /\ \E replies \in RepliesOfChain("correct") : Ask("correct", replies)
    /\ IF chain_text' # <<>>
       THEN /\ facts' = [setting |-> facts.setting \/ _parse_structured(chain_text').setting,
                         characters |-> facts.characters
                                           \/ _parse_structured(chain_text').characters]
            /\ pc' = "t5" /\ UNCHANGED <<confidence, method>>
       ELSE /\ confidence' = "medium" /\ method' = "llm_interview" /\ pc' = "interviewed"
            /\ UNCHANGED facts
    /\ UNCHANGED <<rooms, genVars, worldVars, physics_to_apply, validation_errors,
                   validation_warnings, result, themeVars, providers, chain_call, fileVars>>

\* lines 288-306: turn 5, the validation asked again
InterviewT5 ==
    /\ pc = "t5"
    /\ \E replies \in RepliesOfChain("validate") : Ask("validate", replies)
    /\ confidence' = IF chain_text' # <<>> /\ _is_yes(chain_text') THEN "high" ELSE "medium"
    /\ method' = "llm_interview" /\ pc' = "interviewed"
    /\ UNCHANGED <<rooms, genVars, worldVars, physics_to_apply, validation_errors,
                   validation_warnings, result, themeVars, providers, chain_call,
                   facts, fileVars>>

NextInterview ==
    \/ InterviewT1
    \/ InterviewT2
    \/ InterviewT3
    \/ InterviewT4
    \/ InterviewT5

SpecInterview == InitInterview /\ [][NextInterview]_vars

----------------------------------------------------------------------------
(* C27: the confidence of the interview *)

\* the validation question was the last one asked, and every provider that was asked
\* it answered with the single word "Yes"
ValidatedWithYes ==
    /\ prompts # <<>>
    /\ prompts[Len(prompts)].kind = "validate"
    /\ LET last == prompts[Len(prompts)]
           asked == AskedRaw(providers, last.replies)
       IN asked # {} /\ \A i \in asked : last.replies[i] = YesText

\* C27: when the provider answers the validation question with the single word "Yes",
\* run returns confidence 'high'; and the interview never issues more than five prompts
C27_YesGivesHighConfidence ==
    /\ (pc = "interviewed" /\ ValidatedWithYes) => confidence = "high"
    /\ Len(prompts) <= 5

----------------------------------------------------------------------------
(* room_graph.py: the spanning-tree loop on its own, for larger maps *)

\* largest room count of the spanning trees built
MaxTreeRooms == 6

InitTree ==
    /\ pc = "generate"
    /\ room_count \in 3..MaxTreeRooms
    /\ rooms = <<>>
    /\ GenIdle /\ WorldIdle /\ RunIdle /\ FilesIdle

NextTree == GenerateStart \/ SpanningTreeStep

SpecTree == InitTree /\ [][NextTree]_vars

\* C28: while the spanning tree is built there is always a connected room with a free
\* slot the new room can take, so the detach-and-reattach branch is never taken; and
\* when the loop ends the graph is a tree: roomCount - 1 edges and every room reached
\* from room 0
C28_TreeWithoutReroute ==
    /\ ~rerouted
    /\ (pc = "tree" /\ next_i < room_count) =>
          ConnectOutcomes(adjacency, next_i, 0..(next_i - 1)) # {}
    /\ (pc = "bonus" /\ attempts = 0) =>
          /\ EdgeEntries = 2 * (room_count - 1)
          /\ ReachFrom(adjacency, {0}) = Nodes

\* the tree of a six-room map is complete, room 0 has no free slot left, and two rooms
\* hang from other rooms
C28_Witness ==
    /\ pc = "bonus" /\ attempts = 0 /\ room_count = 6
    /\ Len(adjacency[0]) = 3
    /\ ReachFrom(adjacency, {0}) = Nodes

----------------------------------------------------------------------------
(* C29: exits come in pairs *)

\* the direction that leads back
Opposite(d) ==
    CASE d = "north" -> "south" [] d = "south" -> "north"
      [] d = "east"  -> "west"  [] d = "west"  -> "east"
      [] d = "up"    -> "down"  [] d = "down"  -> "up"

\* C29: in a generated map, whenever room A has an exit in direction d to room B, room B
\* has an exit in the opposite direction back to A; and no room uses one direction for
\* two neighbours
C29_ExitsReciprocal ==
    pc = "generated" =>
        /\ \A a \in 1..Len(rooms) : \A d \in DOMAIN rooms[a].exits :
              \E b \in 1..Len(rooms) :
                  /\ rooms[b].id = rooms[a].exits[d]
                  /\ Opposite(d) \in DOMAIN rooms[b].exits
                  /\ rooms[b].exits[Opposite(d)] = rooms[a].id
        /\ \A i \in Nodes : \A k, m \in 1..Len(adjacency[i]) :
              adjacency[i][k].d = adjacency[i][m].d => k = m

----------------------------------------------------------------------------
(* C30: reachability through the repair *)

\* the room sections of rooms.ini reached from section s by exits that name a section
ArtifactReach(f, s) == ValidatorReach(f.rooms.sections, {s}) \cap SectionIds(f.rooms)

\* C30: the repair never reduces reachability: every existing room reached from the
\* start room before the repair is reached from it after the repair, whichever room the
\* start room is
C30_RepairKeepsReachability ==
    [][pc = "repair" =>
          \A s \in SectionIds(files.rooms) :
              /\ s \in SectionIds(files'.rooms)
              /\ ArtifactReach(files, s) \subseteq ArtifactReach(files', s)]_vars

\* an exit of the first room was removed, and the second room is still reached from it
C30_Witness ==
    /\ pc = "recheck" /\ repaired > 0
    /\ Len(files.rooms.sections) = 2
    /\ DOMAIN files.rooms.sections[1].exits # {}
    /\ ArtifactReach(files, files.rooms.sections[1].id) = SectionIds(files.rooms)

====
